---- MODULE Spec2Model ----
(***************************************************************************)
(* The Network -> Graph conversion pass of the Ethos-N support library     *)
(* (NetworkToGraphConverter.cpp).  The converter visits the operations of  *)
(* a source network in topological order; every Visit method lowers one    *)
(* operation onto nodes of m_Graph and records, in m_OperandToNode, the    *)
(* node that produces each operand.                                        *)
(*                                                                         *)
(* The source network is revealed one operation at a time: an action       *)
(* VisitX(...) takes the next operation of the network (its inputs are     *)
(* operands of earlier operations, so the order is topological), adds its  *)
(* output operands to `operands`, and runs the whole of Visit(X&).         *)
(***************************************************************************)
EXTENDS Integers, Sequences, FiniteSets, TLC

VARIABLES
    m_Graph,            \* the lowered graph: [nodes, edges]
    m_OperandToNode,    \* operand -> node producing it (0 is a null Node*)
    m_EstimationMode,   \* constructor argument of the converter
    asserts,            \* build variable: are assert()s compiled in
    operands,           \* the operands of the operations visited so far
    network,            \* the operations visited so far, in visiting order
    status,             \* "ok" while the pass runs, else how it ended
    call                \* a helper function called on its own: arguments, results

vars == <<m_Graph, m_OperandToNode, m_EstimationMode, asserts, operands, network, status,
          call>>

(***************************************************************************)
(* Bounds of the model.                                                    *)
(***************************************************************************)
MaxOps == 3
MaxInputs == 2
MaxOutputs == 2

(***************************************************************************)
(* Tensor and quantization descriptors.                                    *)
(***************************************************************************)
QuantizationInfo(zeroPoint, scale) == [m_ZeroPoint |-> zeroPoint, m_Scale |-> scale]

TensorInfo(dims, type, format, quant) ==
    [m_Dimensions |-> dims, m_DataType |-> type, m_DataFormat |-> format,
     m_QuantizationInfo |-> quant]

\* Scales are counted in units of 1/256, so that 0.5f is 128 and 1.0f is 256.
ScaleHalf == 128

ScaleTimes(a, b) == (a * b) \div 256

ConvertExternalToCompilerDataFormat(dataFormat) ==
    CASE dataFormat = "DataFormat::NHWC"  -> "NHWC"
      [] dataFormat = "DataFormat::NHWCB" -> "NHWCB"

GetBrickGroupShape == <<1, 8, 8, 16>>

SupportedLevels == {"Supported", "EstimateOnly", "Unsupported"}

(***************************************************************************)
(* Lowered nodes.  Every node carries its output shape, quantization and   *)
(* format, the set of source operation ids it corresponds to, the list of  *)
(* its input edges and the kind-specific arguments of its constructor.     *)
(***************************************************************************)
Node(kind, shape, quant, format, ids, args) ==
    [kind |-> kind, shape |-> shape, quant |-> quant, format |-> format,
     ids |-> ids, m_Inputs |-> <<>>, args |-> args]

NoArgs == [none |-> TRUE]

NoShape == <<0, 0, 0, 0>>

NoQuant == QuantizationInfo(0, 0)

InputNode(info, ids) ==
    Node("Input", info.m_Dimensions, info.m_QuantizationInfo,
         ConvertExternalToCompilerDataFormat(info.m_DataFormat), ids, NoArgs)

OutputNode(ids, sourceOperationOutputIndex) ==
    Node("Output", NoShape, NoQuant, "NONE", ids,
         [sourceOperationOutputIndex |-> sourceOperationOutputIndex])

ConstantNode(info, data, ids) ==
    Node("Constant", info.m_Dimensions, info.m_QuantizationInfo,
         ConvertExternalToCompilerDataFormat(info.m_DataFormat), ids,
         [data |-> data])

FormatConversionNode(shape, quant, format, ids) ==
    Node("FormatConversion", shape, quant, format, ids, NoArgs)

ReinterpretNode(shape, quant, format, ids) ==
    Node("Reinterpret", shape, quant, format, ids, NoArgs)

ExtractSubtensorNode(offset, shape, quant, format, ids) ==
    Node("ExtractSubtensor", shape, quant, format, ids, [supertensorOffset |-> offset])

ConcatNode(shape, quant, format, axis, ids) ==
    Node("Concat", shape, quant, format, ids, [axis |-> axis])

RequantizeNode(shape, quant, format, ids) ==
    Node("Requantize", shape, quant, format, ids, NoArgs)

McePostProcessOperationNode(shape, quant, lowerBound, upperBound, format, ids) ==
    Node("McePostProcessOperation", shape, quant, format, ids,
         [lowerBound |-> lowerBound, upperBound |-> upperBound])

FuseOnlyPleOperationNode(shape, quant, op, format, shapeMultiplier, ids) ==
    Node("FuseOnlyPleOperation", shape, quant, format, ids,
         [op |-> op, shapeMultiplier |-> shapeMultiplier])

StandalonePleOperationNode(shape, quant, op, format, ids) ==
    Node("StandalonePleOperation", shape, quant, format, ids, [op |-> op])

EstimateOnlyNode(shape, quant, format, ids) ==
    Node("EstimateOnly", shape, quant, format, ids, NoArgs)

g_IdentityShapeMultiplier == <<<<1, 1>>, <<1, 1>>, 1>>

(***************************************************************************)
(* The lowered graph.  An edge is identified by its position in `edges`;   *)
(* a node by its position in `nodes`.                                      *)
(***************************************************************************)
EmptyGraph == [nodes |-> <<>>, edges |-> <<>>]

\* CreateAndAddNode: the new node is the last one of the result.
CreateAndAddNode(g, node) == [g EXCEPT !.nodes = Append(@, node)]

LastNode(g) == Len(g.nodes)

\* Connect appends an edge source -> dest to the inputs of dest.
Connect(g, source, dest) ==
    [nodes |-> [g.nodes EXCEPT ![dest].m_Inputs = Append(@, Len(g.edges) + 1)],
     edges |-> Append(g.edges, [source |-> source, dest |-> dest])]

FindIndex(seq, x) == CHOOSE i \in 1..Len(seq) : seq[i] = x

\* SplitEdge puts newNode in the middle of an edge: the edge itself now ends
\* at newNode, and a new edge newNode -> old destination takes its place
\* among the inputs of the old destination.
SplitEdge(g, edge, newNode) ==
    LET oldDest == g.edges[edge].dest
        idx     == FindIndex(g.nodes[oldDest].m_Inputs, edge)
        newEdge == Len(g.edges) + 1
    IN  [nodes |-> [g.nodes EXCEPT ![newNode].m_Inputs = Append(@, edge),
                                   ![oldDest].m_Inputs[idx] = newEdge],
         edges |-> Append([g.edges EXCEPT ![edge].dest = newNode],
                          [source |-> newNode, dest |-> oldDest])]

GetInput(g, n, i) == g.nodes[n].m_Inputs[i]

GetInputNode(g, n, i) == g.edges[GetInput(g, n, i)].source

GetInputFormat(g, n, i) == g.nodes[GetInputNode(g, n, i)].format

GetInputQuantizationInfo(g, n, i) == g.nodes[GetInputNode(g, n, i)].quant

(***************************************************************************)
(* The source network.  An operand is known by its position in `operands`, *)
(* an operation by its id (ids count from 0 in visiting order).            *)
(***************************************************************************)
Operand(info, producer, producerOutputIndex) ==
    [info |-> info, producer |-> producer, producerOutputIndex |-> producerOutputIndex,
     consumers |-> 0, closed |-> FALSE]

GetId == Len(network)

Range(seq) == {seq[i] : i \in 1..Len(seq)}

Count(seq, x) == Cardinality({i \in 1..Len(seq) : seq[i] = x})

\* The operation being visited: its input operands are operands of earlier
\* operations, its output operands are new.
Operation(kind, inputs, numOutputs) ==
    [id |-> GetId, kind |-> kind, inputs |-> inputs,
     outputs |-> [i \in 1..numOutputs |-> Len(operands) + i]]

\* Operands a further operation may consume: those whose list of consumers
\* has not been read as complete by an earlier visit.
Usable == {o \in 1..Len(operands) : ~operands[o].closed}

InputLists(n) == [1..n -> Usable]

Result(g, map, st) == [graph |-> g, map |-> map, status |-> st]

(***************************************************************************)
(* ConnectNodeChain and ConnectNode.                                       *)
(***************************************************************************)
\* Variant: the loop runs one step too far and wraps round, connecting the
\* back of the chain to its front.
RECURSIVE ConnectSuccessiveWrapping(_, _, _)
ConnectSuccessiveWrapping(g, nodes, i) ==
    IF i > Len(nodes) THEN g
    ELSE ConnectSuccessiveWrapping(Connect(g, nodes[i], nodes[(i % Len(nodes)) + 1]),
                                   nodes, i + 1)

RECURSIVE ConnectSuccessive(_, _, _)
ConnectSuccessive(g, nodes, i) ==
    IF i > Len(nodes) - 1 THEN g
    ELSE ConnectSuccessive(Connect(g, nodes[i], nodes[i + 1]), nodes, i + 1)

\* m_OperandToNode.at(op) throws std::out_of_range for an operand without an
\* entry; connecting from a null Node* is undefined and ends the pass.
\* Variant: the loop over the operation's inputs is left out.
ConnectInputsNone(g, map, inputs, front, i) == Result(g, map, "ok")

RECURSIVE ConnectInputs(_, _, _, _, _)
ConnectInputs(g, map, inputs, front, i) ==
    IF i > Len(inputs) THEN Result(g, map, "ok")
    ELSE IF inputs[i] \notin DOMAIN map THEN Result(g, map, "out_of_range")
    ELSE IF map[inputs[i]] = 0 THEN Result(g, map, "undefined")
    ELSE ConnectInputs(Connect(g, map[inputs[i]], front), map, inputs, front, i + 1)

\* Variant: the input operands are connected to the back of the chain.
ConnectNodeChainToBack(g, map, operation, nodes) ==
    LET connected == ConnectInputs(ConnectSuccessive(g, nodes, 1), map,
                                   operation.inputs, nodes[Len(nodes)], 1)
    IN  IF connected.status # "ok" THEN connected
        ELSE IF Len(operation.outputs) > 0
        THEN Result(connected.graph,
                    (operation.outputs[1] :> nodes[Len(nodes)]) @@ map, "ok")
        ELSE connected

ConnectNodeChain(g, map, operation, nodes) ==
    LET connected == ConnectInputs(ConnectSuccessive(g, nodes, 1), map,
                                   operation.inputs, nodes[1], 1)
    IN  IF connected.status # "ok" THEN connected
        ELSE IF Len(operation.outputs) > 0
        THEN Result(connected.graph,
                    (operation.outputs[1] :> nodes[Len(nodes)]) @@ map, "ok")
        ELSE connected

ConnectNode(g, map, operation, node) == ConnectNodeChain(g, map, operation, <<node>>)

\* m_OperandToNode[&operand]: std::map::operator[] yields a null Node* for an
\* operand without an entry.
Lookup(map, operand) == IF operand \in DOMAIN map THEN map[operand] ELSE 0

\* The lowering shared by every "supportedLevel == EstimateOnly" branch of a
\* single-output operation.
EstimateOnlyBranch(g, map, operation, outInfo) ==
    LET g1 == CreateAndAddNode(g, EstimateOnlyNode(outInfo.m_Dimensions,
                  outInfo.m_QuantizationInfo, "NHWCB", {operation.id}))
    IN  ConnectNode(g1, map, operation, LastNode(g1))

(***************************************************************************)
(* The rewrite rules.  Each is a function from the graph, the operand map  *)
(* and the operation to the graph, the map and the way the visit ended.    *)
(***************************************************************************)
InputRule(g, map, operation, info) ==
    LET g1 == CreateAndAddNode(g, InputNode(info, {operation.id}))
        n  == LastNode(g1)
    IN  IF g1.nodes[n].format # "NHWCB"
        THEN LET g2 == CreateAndAddNode(g1, FormatConversionNode(info.m_Dimensions,
                           info.m_QuantizationInfo, "NHWCB", {operation.id}))
             IN  ConnectNodeChain(g2, map, operation, <<n, LastNode(g2)>>)
        ELSE ConnectNodeChain(g1, map, operation, <<n>>)

ConstantRule(g, map, operation, info, data) ==
    LET g1 == CreateAndAddNode(g, ConstantNode(info, data, {operation.id}))
    IN  ConnectNode(g1, map, operation, LastNode(g1))

\* Variant: the nodes carry the producer's id and the Output operation's id.
OutputRuleBothIds(g, map, operation, info) ==
    LET input    == operation.inputs[1]
        producer == operands[input].producer
        format   == ConvertExternalToCompilerDataFormat(info.m_DataFormat)
        convert  == g.nodes[Lookup(map, input)].format # format
        g1 == IF convert
              THEN CreateAndAddNode(g, FormatConversionNode(info.m_Dimensions,
                       info.m_QuantizationInfo, format, {producer, operation.id}))
              ELSE g
        g2 == CreateAndAddNode(g1, OutputNode({producer, operation.id},
                       operands[input].producerOutputIndex))
    IN  IF Lookup(map, input) = 0 THEN Result(g, map, "undefined")
        ELSE ConnectNodeChain(g2, map, operation,
                 IF convert THEN <<LastNode(g1), LastNode(g2)>> ELSE <<LastNode(g2)>>)

\* Variant: the Output node carries output index 0 whatever output of its
\* producer the operand is.
OutputRuleIndexZero(g, map, operation, info) ==
    LET input    == operation.inputs[1]
        producer == operands[input].producer
        format   == ConvertExternalToCompilerDataFormat(info.m_DataFormat)
        convert  == g.nodes[Lookup(map, input)].format # format
        g1 == IF convert
              THEN CreateAndAddNode(g, FormatConversionNode(info.m_Dimensions,
                       info.m_QuantizationInfo, format, {producer}))
              ELSE g
        g2 == CreateAndAddNode(g1, OutputNode({producer}, 0))
    IN  IF Lookup(map, input) = 0 THEN Result(g, map, "undefined")
        ELSE ConnectNodeChain(g2, map, operation,
                 IF convert THEN <<LastNode(g1), LastNode(g2)>> ELSE <<LastNode(g2)>>)

\* output.GetTensorInfo() is info; the ids are those of the producer of the
\* input operand, not of the Output operation.
OutputRule(g, map, operation, info) ==
    LET input    == operation.inputs[1]
        producer == operands[input].producer
        format   == ConvertExternalToCompilerDataFormat(info.m_DataFormat)
        convert  == g.nodes[Lookup(map, input)].format # format
        g1 == IF convert
              THEN CreateAndAddNode(g, FormatConversionNode(info.m_Dimensions,
                       info.m_QuantizationInfo, format, {producer}))
              ELSE g
        g2 == CreateAndAddNode(g1, OutputNode({producer},
                       operands[input].producerOutputIndex))
    IN  IF Lookup(map, input) = 0 THEN Result(g, map, "undefined")
        ELSE ConnectNodeChain(g2, map, operation,
                 IF convert THEN <<LastNode(g1), LastNode(g2)>> ELSE <<LastNode(g2)>>)

ReluRule(g, map, operation, outInfo, reluInfo) ==
    LET g1 == CreateAndAddNode(g, McePostProcessOperationNode(outInfo.m_Dimensions,
                  outInfo.m_QuantizationInfo, reluInfo.m_LowerBound,
                  reluInfo.m_UpperBound, "NHWCB", {operation.id}))
    IN  ConnectNode(g1, map, operation, LastNode(g1))

SigmoidRule(g, map, operation, outInfo) ==
    LET g1 == CreateAndAddNode(g, FuseOnlyPleOperationNode(outInfo.m_Dimensions,
                  outInfo.m_QuantizationInfo, "SIGMOID", "NHWCB",
                  g_IdentityShapeMultiplier, {operation.id}))
    IN  ConnectNode(g1, map, operation, LastNode(g1))

\* assert(!"Not implemented"): with asserts compiled out the visit returns
\* having lowered nothing.
SoftmaxRule(g, map, operation, outInfo, supportedLevel) ==
    IF supportedLevel = "EstimateOnly" THEN EstimateOnlyBranch(g, map, operation, outInfo)
    ELSE IF asserts THEN Result(g, map, "assert")
    ELSE Result(g, map, "ok")

(***************************************************************************)
(* Arithmetic of Utils.hpp.  A uint32_t is held by its 32-bit pattern read *)
(* as a signed integer: sums, differences and products agree modulo 2^32,  *)
(* and a value of 2^31 or more (a wrapped difference) shows as negative.   *)
(***************************************************************************)
Dim(shape, i) == shape[i + 1]

WithDim(shape, i, v) == [shape EXCEPT ![i + 1] = v]

DivRoundUp(numerator, denominator) == (numerator + denominator - 1) \div denominator

RoundUpToNearestMultiple(num, nearestMultiple) ==
    DivRoundUp(num, nearestMultiple) * nearestMultiple

Min(a, b) == IF a < b THEN a ELSE b

GetNumElements(shape) == shape[1] * shape[2] * shape[3] * shape[4]

\* Only UINT8_QUANTIZED tensors are measured: one byte an element.
TotalSizeBytes(info) == GetNumElements(info.m_Dimensions)

NumberOfSrams == 16

GetNumSubmapChannels(nChannels, strideX, strideY) ==
    RoundUpToNearestMultiple(nChannels, NumberOfSrams) * strideX * strideY

Stride(x, y) == [m_X |-> x, m_Y |-> y]

Padding(top, bottom, left, right) ==
    [m_Top |-> top, m_Bottom |-> bottom, m_Left |-> left, m_Right |-> right]

PoolingInfo(sizeX, sizeY, strideX, strideY, padding, type) ==
    [m_PoolingSizeX |-> sizeX, m_PoolingSizeY |-> sizeY, m_PoolingStrideX |-> strideX,
     m_PoolingStrideY |-> strideY, m_Padding |-> padding, m_PoolingType |-> type]

MceOperationNode(inputShape, outputShape, quant, weightsInfo, weightsData, biasInfo, biasData, stride, upscaleFactor, padTop, padLeft, op, format, ids) ==
    Node("MceOperation", outputShape, quant, format, ids,
         [inputShape |-> inputShape, weightsInfo |-> weightsInfo,
          weightsData |-> weightsData, biasInfo |-> biasInfo, biasData |-> biasData,
          stride |-> stride, upscaleFactor |-> upscaleFactor, padTop |-> padTop,
          padLeft |-> padLeft, op |-> op])

(***************************************************************************)
(* Pooling.                                                                *)
(***************************************************************************)
\* Variant: the 3x3 average pooling is looked for before the mean.
PoolingPleOperationAvgFirst(poolingInfo, inputInfo) ==
    LET inputHeight == Dim(inputInfo.m_Dimensions, 1)
        inputWidth  == Dim(inputInfo.m_Dimensions, 2)
        poolingInfoIfMean ==
            PoolingInfo(inputWidth, inputHeight, poolingInfo.m_PoolingStrideX,
                        poolingInfo.m_PoolingStrideY, Padding(0, 0, 0, 0), "AVG")
    IN  IF poolingInfo = PoolingInfo(3, 3, 1, 1, poolingInfo.m_Padding, "AVG")
        THEN [node |-> "Standalone", op |-> "AVGPOOL_3X3_1_1_UDMA"]
        ELSE IF poolingInfo = poolingInfoIfMean
        THEN [node |-> "FuseOnly", op |-> "MEAN_XY_8X8"]
        ELSE IF poolingInfo = PoolingInfo(2, 2, 2, 2, poolingInfo.m_Padding, "MAX")
        THEN [node |-> "FuseOnly", op |-> "MAXPOOL_2X2_2_2"]
        ELSE IF poolingInfo = PoolingInfo(3, 3, 2, 2, poolingInfo.m_Padding, "MAX")
        THEN [node |-> "FuseOnly", op |-> "MAXPOOL_3X3_2_2"]
        ELSE [node |-> "nullptr", op |-> "Unsupported"]

PoolingPleOperation(poolingInfo, inputInfo) ==
    LET inputHeight == Dim(inputInfo.m_Dimensions, 1)
        inputWidth  == Dim(inputInfo.m_Dimensions, 2)
        poolingInfoIfMean ==
            PoolingInfo(inputWidth, inputHeight, poolingInfo.m_PoolingStrideX,
                        poolingInfo.m_PoolingStrideY, Padding(0, 0, 0, 0), "AVG")
    IN  IF poolingInfo = poolingInfoIfMean
        THEN [node |-> "FuseOnly", op |-> "MEAN_XY_8X8"]
        ELSE IF poolingInfo = PoolingInfo(3, 3, 1, 1, poolingInfo.m_Padding, "AVG")
        THEN [node |-> "Standalone", op |-> "AVGPOOL_3X3_1_1_UDMA"]
        ELSE IF poolingInfo = PoolingInfo(2, 2, 2, 2, poolingInfo.m_Padding, "MAX")
        THEN [node |-> "FuseOnly", op |-> "MAXPOOL_2X2_2_2"]
        ELSE IF poolingInfo = PoolingInfo(3, 3, 2, 2, poolingInfo.m_Padding, "MAX")
        THEN [node |-> "FuseOnly", op |-> "MAXPOOL_3X3_2_2"]
        ELSE [node |-> "nullptr", op |-> "Unsupported"]

\* Variant: a pooling that matches none of the cases is passed over, and the
\* visit returns normally.
PoolingRuleNoAssert(g, map, operation, inputInfo, outInfo, poolingInfo, supportedLevel) ==
    LET choice == PoolingPleOperation(poolingInfo, inputInfo)
        shapeMultiplier == <<<<1, poolingInfo.m_PoolingStrideY>>,
                             <<1, poolingInfo.m_PoolingStrideX>>, 1>>
        node == IF choice.node = "FuseOnly"
                THEN FuseOnlyPleOperationNode(outInfo.m_Dimensions,
                         outInfo.m_QuantizationInfo, choice.op, "NHWCB",
                         shapeMultiplier, {operation.id})
                ELSE StandalonePleOperationNode(outInfo.m_Dimensions,
                         outInfo.m_QuantizationInfo, choice.op, "NHWCB", {operation.id})
        g1 == CreateAndAddNode(g, node)
    IN  IF supportedLevel = "EstimateOnly"
        THEN EstimateOnlyBranch(g, map, operation, outInfo)
        ELSE IF choice.node = "nullptr" THEN Result(g, map, "ok")
        ELSE ConnectNode(g1, map, operation, LastNode(g1))

\* In the last case assert(!"Unsupported") fails; with asserts compiled out
\* ConnectNode is handed a null Node*, which is undefined.
PoolingRule(g, map, operation, inputInfo, outInfo, poolingInfo, supportedLevel) ==
    LET choice == PoolingPleOperation(poolingInfo, inputInfo)
        shapeMultiplier == <<<<1, poolingInfo.m_PoolingStrideY>>,
                             <<1, poolingInfo.m_PoolingStrideX>>, 1>>
        node == IF choice.node = "FuseOnly"
                THEN FuseOnlyPleOperationNode(outInfo.m_Dimensions,
                         outInfo.m_QuantizationInfo, choice.op, "NHWCB",
                         shapeMultiplier, {operation.id})
                ELSE StandalonePleOperationNode(outInfo.m_Dimensions,
                         outInfo.m_QuantizationInfo, choice.op, "NHWCB", {operation.id})
        g1 == CreateAndAddNode(g, node)
    IN  IF supportedLevel = "EstimateOnly"
        THEN EstimateOnlyBranch(g, map, operation, outInfo)
        ELSE IF choice.node = "nullptr"
        THEN Result(g, map, IF asserts THEN "assert" ELSE "undefined")
        ELSE ConnectNode(g1, map, operation, LastNode(g1))

(***************************************************************************)
(* Reshape.                                                                *)
(***************************************************************************)
\* Variant: the conversion to NHWC is never prepended.
ReshapeRuleNoConversion(g, map, operation, inputInfo, outInfo) ==
    LET input == operation.inputs[1]
        g2 == CreateAndAddNode(g, ReinterpretNode(outInfo.m_Dimensions,
                       outInfo.m_QuantizationInfo, "NHWC", {operation.id}))
        g3 == CreateAndAddNode(g2, FormatConversionNode(outInfo.m_Dimensions,
                       outInfo.m_QuantizationInfo, "NHWCB", {operation.id}))
    IN  IF Lookup(map, input) = 0 THEN Result(g, map, "undefined")
        ELSE ConnectNodeChain(g3, map, operation, <<LastNode(g2), LastNode(g3)>>)

ReshapeRule(g, map, operation, inputInfo, outInfo) ==
    LET input   == operation.inputs[1]
        convert == g.nodes[Lookup(map, input)].format # "NHWC"
        g1 == IF convert
              THEN CreateAndAddNode(g, FormatConversionNode(inputInfo.m_Dimensions,
                       inputInfo.m_QuantizationInfo, "NHWC", {operation.id}))
              ELSE g
        g2 == CreateAndAddNode(g1, ReinterpretNode(outInfo.m_Dimensions,
                       outInfo.m_QuantizationInfo, "NHWC", {operation.id}))
        g3 == CreateAndAddNode(g2, FormatConversionNode(outInfo.m_Dimensions,
                       outInfo.m_QuantizationInfo, "NHWCB", {operation.id}))
    IN  IF Lookup(map, input) = 0 THEN Result(g, map, "undefined")
        ELSE ConnectNodeChain(g3, map, operation,
                 IF convert THEN <<LastNode(g1), LastNode(g2), LastNode(g3)>>
                 ELSE <<LastNode(g2), LastNode(g3)>>)

(***************************************************************************)
(* FullyConnected.                                                         *)
(***************************************************************************)
Pad(input, newSize, padValue) ==
    [i \in 1..newSize |-> IF i <= Len(input) THEN input[i] ELSE padValue]

\* Variant: the number of patches is rounded down.
GetShapeContainingLinearElementsRoundDown(brickGroupShape, numElements) ==
    LET brickGroupHeight   == Dim(brickGroupShape, 1)
        brickGroupWidth    == Dim(brickGroupShape, 2)
        brickGroupChannels == Dim(brickGroupShape, 3)
        patchHeight == 4
        patchWidth  == 4
        patchesPerBrickGroupHeight == brickGroupHeight \div patchHeight
        patchesPerBrickGroupWidth  == brickGroupWidth \div patchWidth
        patchesPerBrickGroup ==
            patchesPerBrickGroupHeight * patchesPerBrickGroupWidth * brickGroupChannels
        numPatches == numElements \div (patchWidth * patchHeight)
        reinterpretedWidth ==
            IF numPatches <= brickGroupChannels * patchesPerBrickGroupHeight
            THEN patchWidth ELSE brickGroupWidth
        reinterpretedHeight ==
            IF numPatches <= brickGroupChannels THEN patchHeight ELSE brickGroupHeight
        numFullBrickGroups == numPatches \div patchesPerBrickGroup
        reinterpretedChannels ==
            brickGroupChannels * numFullBrickGroups
                + Min(brickGroupChannels, numPatches % patchesPerBrickGroup)
    IN  <<1, reinterpretedHeight, reinterpretedWidth, reinterpretedChannels>>

GetShapeContainingLinearElements(brickGroupShape, numElements) ==
    LET brickGroupHeight   == Dim(brickGroupShape, 1)
        brickGroupWidth    == Dim(brickGroupShape, 2)
        brickGroupChannels == Dim(brickGroupShape, 3)
        patchHeight == 4
        patchWidth  == 4
        patchesPerBrickGroupHeight == brickGroupHeight \div patchHeight
        patchesPerBrickGroupWidth  == brickGroupWidth \div patchWidth
        patchesPerBrickGroup ==
            patchesPerBrickGroupHeight * patchesPerBrickGroupWidth * brickGroupChannels
        numPatches == DivRoundUp(numElements, patchWidth * patchHeight)
        reinterpretedWidth ==
            IF numPatches <= brickGroupChannels * patchesPerBrickGroupHeight
            THEN patchWidth ELSE brickGroupWidth
        reinterpretedHeight ==
            IF numPatches <= brickGroupChannels THEN patchHeight ELSE brickGroupHeight
        numFullBrickGroups == numPatches \div patchesPerBrickGroup
        reinterpretedChannels ==
            brickGroupChannels * numFullBrickGroups
                + Min(brickGroupChannels, numPatches % patchesPerBrickGroup)
    IN  <<1, reinterpretedHeight, reinterpretedWidth, reinterpretedChannels>>

WeightsChannelMultiple == 1024

\* Variant: the input channels always grow to the multiple above, also
\* when they are a multiple already.
FullyConnectedWeightsInfoAlwaysUp(weightsInfo) ==
    [weightsInfo EXCEPT !.m_Dimensions =
        WithDim(@, 2, (Dim(@, 2) \div WeightsChannelMultiple + 1) * WeightsChannelMultiple)]

FullyConnectedWeightsInfo(weightsInfo) ==
    [weightsInfo EXCEPT !.m_Dimensions =
        WithDim(@, 2, RoundUpToNearestMultiple(Dim(@, 2), WeightsChannelMultiple))]

FullyConnectedRule(g, map, operation, inputInfo, outInfo, weights, bias) ==
    LET input   == operation.inputs[1]
        convert == g.nodes[Lookup(map, input)].format # "NHWC"
        g1 == IF convert
              THEN CreateAndAddNode(g, FormatConversionNode(inputInfo.m_Dimensions,
                       inputInfo.m_QuantizationInfo, "NHWC", {operation.id}))
              ELSE g
        reinterpretedInput ==
            GetShapeContainingLinearElements(GetBrickGroupShape,
                                             Dim(inputInfo.m_Dimensions, 3))
        g2 == CreateAndAddNode(g1, ReinterpretNode(reinterpretedInput,
                       inputInfo.m_QuantizationInfo, "NHWCB", {operation.id}))
        weightsInfo == FullyConnectedWeightsInfo(weights.info)
        paddedWeightsData == Pad(weights.data, TotalSizeBytes(weightsInfo),
                                 weightsInfo.m_QuantizationInfo.m_ZeroPoint)
        g3 == CreateAndAddNode(g2, MceOperationNode(inputInfo.m_Dimensions,
                       outInfo.m_Dimensions, outInfo.m_QuantizationInfo, weightsInfo,
                       paddedWeightsData, bias.info, bias.data, Stride(1, 1), 1, 0, 0,
                       "FULLY_CONNECTED", "NHWCB", {operation.id}))
    IN  IF Lookup(map, input) = 0 THEN Result(g, map, "undefined")
        ELSE ConnectNodeChain(g3, map, operation,
                 IF convert THEN <<LastNode(g1), LastNode(g2), LastNode(g3)>>
                 ELSE <<LastNode(g2), LastNode(g3)>>)

(***************************************************************************)
(* Addition.                                                               *)
(***************************************************************************)
AdditionRule(g, map, operation, inputInfo0, inputInfo1, outInfo, supportedLevel) ==
    LET quantInfoInput0 == inputInfo0.m_QuantizationInfo
        quantInfoInput1 == inputInfo1.m_QuantizationInfo
        quantInfoOutput == outInfo.m_QuantizationInfo
        isQuantInfoIdentical ==
            (quantInfoInput0 = quantInfoInput1) /\ (quantInfoInput0 = quantInfoOutput)
        pleOp == IF isQuantInfoIdentical THEN "ADDITION" ELSE "ADDITION_RESCALE"
        g1 == CreateAndAddNode(g, StandalonePleOperationNode(outInfo.m_Dimensions,
                  outInfo.m_QuantizationInfo, pleOp, "NHWCB", {operation.id}))
    IN  IF supportedLevel = "EstimateOnly"
        THEN EstimateOnlyBranch(g, map, operation, outInfo)
        ELSE ConnectNode(g1, map, operation, LastNode(g1))

(***************************************************************************)
(* Concatenation.                                                          *)
(***************************************************************************)
\* Variant: only the first tensor is looked at.
FormatForAxisOfFirst(infos, axis) ==
    IF Dim(infos[1].m_Dimensions, axis) % Dim(GetBrickGroupShape, axis) # 0
    THEN "NHWC" ELSE "NHWCB"

\* NHWCB if the dimensions along the axis are all multiples of the brick
\* group size, else NHWC.  (Shared by Concatenation, over its inputs, and
\* Split, over its outputs.)
FormatForAxis(infos, axis) ==
    IF \E i \in 1..Len(infos) :
           Dim(infos[i].m_Dimensions, axis) % Dim(GetBrickGroupShape, axis) # 0
    THEN "NHWC" ELSE "NHWCB"

\* First loop of a splicing phase: a new node for every input of n that
\* needs one, paired with the edge that is input i of n at that moment.
RECURSIVE CollectConversions(_, _, _, _, _, _, _)
CollectConversions(g, n, inputInfos, format, id, i, acc) ==
    IF i > Len(inputInfos) THEN [graph |-> g, pairs |-> acc]
    ELSE IF GetInputFormat(g, n, i) # format
    THEN LET g1 == CreateAndAddNode(g, FormatConversionNode(inputInfos[i].m_Dimensions,
                       inputInfos[i].m_QuantizationInfo, format, {id}))
         IN  CollectConversions(g1, n, inputInfos, format, id, i + 1,
                 Append(acc, <<GetInput(g, n, i), LastNode(g1)>>))
    ELSE CollectConversions(g, n, inputInfos, format, id, i + 1, acc)

\* Variant: no input is ever found to need a Requantize.
CollectRequantizesNone(g, n, inputInfos, outputQuantInfo, format, id, i, acc) ==
    [graph |-> g, pairs |-> acc]

RECURSIVE CollectRequantizes(_, _, _, _, _, _, _, _)
CollectRequantizes(g, n, inputInfos, outputQuantInfo, format, id, i, acc) ==
    IF i > Len(inputInfos) THEN [graph |-> g, pairs |-> acc]
    ELSE IF GetInputQuantizationInfo(g, n, i) # outputQuantInfo
    THEN LET g1 == CreateAndAddNode(g, RequantizeNode(inputInfos[i].m_Dimensions,
                       outputQuantInfo, format, {id}))
         IN  CollectRequantizes(g1, n, inputInfos, outputQuantInfo, format, id, i + 1,
                 Append(acc, <<GetInput(g, n, i), LastNode(g1)>>))
    ELSE CollectRequantizes(g, n, inputInfos, outputQuantInfo, format, id, i + 1, acc)

\* Variant: the second loop of a splicing phase is left out, so the new
\* nodes are never spliced in.
SplitEdgesNone(g, pairs, i) == g

\* Second loop of a splicing phase.
RECURSIVE SplitEdges(_, _, _)
SplitEdges(g, pairs, i) ==
    IF i > Len(pairs) THEN g
    ELSE SplitEdges(SplitEdge(g, pairs[i][1], pairs[i][2]), pairs, i + 1)

\* Variant: the shared-input check does not look at the estimation mode.
HasSharedInputAnyMode(consumersSize, estimationMode) ==
    \E i \in 1..Len(consumersSize) : consumersSize[i] > 1

\* consumersSize[i] is GetConsumers().size() of input i.
HasSharedInput(consumersSize, estimationMode) ==
    \E i \in 1..Len(consumersSize) : consumersSize[i] > 1 /\ ~estimationMode

\* Variant: the verdict is looked at before the consumers of the inputs.
ConcatenationRuleVerdictFirst(g, map, operation, inputInfos, outInfo, concatInfo, supportedLevel, consumersSize) ==
    LET format == FormatForAxis(inputInfos, concatInfo.m_Axis)
        g1 == CreateAndAddNode(g, ConcatNode(outInfo.m_Dimensions,
                  concatInfo.m_OutputQuantizationInfo, format, concatInfo.m_Axis,
                  {operation.id}))
        n  == LastNode(g1)
        connected == ConnectNode(g1, map, operation, n)
        conversions == CollectConversions(connected.graph, n, inputInfos, format,
                                          operation.id, 1, <<>>)
        g2 == SplitEdges(conversions.graph, conversions.pairs, 1)
        requantizes == CollectRequantizes(g2, n, inputInfos, outInfo.m_QuantizationInfo,
                                          format, operation.id, 1, <<>>)
        g3 == SplitEdges(requantizes.graph, requantizes.pairs, 1)
    IN  IF supportedLevel = "EstimateOnly"
        THEN EstimateOnlyBranch(g, map, operation, outInfo)
        ELSE IF HasSharedInput(consumersSize, m_EstimationMode)
        THEN Result(g, map, "NotSupportedException")
        ELSE IF connected.status # "ok" THEN connected
        ELSE Result(g3, connected.map, "ok")

\* Variant: the two splicing phases run in the other order.
ConcatenationRuleRequantizeFirst(g, map, operation, inputInfos, outInfo, concatInfo, supportedLevel, consumersSize) ==
    LET format == FormatForAxis(inputInfos, concatInfo.m_Axis)
        g1 == CreateAndAddNode(g, ConcatNode(outInfo.m_Dimensions,
                  concatInfo.m_OutputQuantizationInfo, format, concatInfo.m_Axis,
                  {operation.id}))
        n  == LastNode(g1)
        connected == ConnectNode(g1, map, operation, n)
        requantizes == CollectRequantizes(connected.graph, n, inputInfos,
                           outInfo.m_QuantizationInfo, format, operation.id, 1, <<>>)
        g2 == SplitEdges(requantizes.graph, requantizes.pairs, 1)
        conversions == CollectConversions(g2, n, inputInfos, format, operation.id, 1, <<>>)
        g3 == SplitEdges(conversions.graph, conversions.pairs, 1)
    IN  IF HasSharedInput(consumersSize, m_EstimationMode)
        THEN Result(g, map, "NotSupportedException")
        ELSE IF supportedLevel = "EstimateOnly"
        THEN EstimateOnlyBranch(g, map, operation, outInfo)
        ELSE IF connected.status # "ok" THEN connected
        ELSE Result(g3, connected.map, "ok")

ConcatenationRule(g, map, operation, inputInfos, outInfo, concatInfo, supportedLevel, consumersSize) ==
    LET numInputs == Len(operation.inputs)
        axis   == concatInfo.m_Axis
        format == FormatForAxis(inputInfos, axis)
        g1 == CreateAndAddNode(g, ConcatNode(outInfo.m_Dimensions,
                  concatInfo.m_OutputQuantizationInfo, format, axis, {operation.id}))
        n  == LastNode(g1)
        connected == ConnectNode(g1, map, operation, n)
        conversions == CollectConversions(connected.graph, n, inputInfos, format,
                                          operation.id, 1, <<>>)
        g2 == SplitEdges(conversions.graph, conversions.pairs, 1)
        outputQuantInfo == outInfo.m_QuantizationInfo
        requantizes == CollectRequantizes(g2, n, inputInfos, outputQuantInfo, format,
                                          operation.id, 1, <<>>)
        g3 == SplitEdges(requantizes.graph, requantizes.pairs, 1)
    IN  IF HasSharedInput(consumersSize, m_EstimationMode)
        THEN Result(g, map, "NotSupportedException")
        ELSE IF supportedLevel = "EstimateOnly"
        THEN EstimateOnlyBranch(g, map, operation, outInfo)
        ELSE IF connected.status # "ok" THEN connected
        ELSE Result(g3, connected.map, "ok")

(***************************************************************************)
(* Split.                                                                  *)
(***************************************************************************)
RECURSIVE SplitEstimateOnly(_, _, _, _, _, _)
SplitEstimateOnly(g, map, operation, outInfos, inputNode, i) ==
    IF i > Len(operation.outputs) THEN Result(g, map, "ok")
    ELSE LET g1 == CreateAndAddNode(g, EstimateOnlyNode(outInfos[i].m_Dimensions,
                       outInfos[i].m_QuantizationInfo, "NHWCB", {operation.id}))
             map1 == (operation.outputs[i] :> LastNode(g1)) @@ map
         IN  IF inputNode = 0 THEN Result(g1, map1, "undefined")
             ELSE SplitEstimateOnly(Connect(g1, inputNode, LastNode(g1)), map1,
                                    operation, outInfos, inputNode, i + 1)

\* Variant: the size of the output is not written into the shape.
ExtractSubtensorShapeWhole(inputDimensions, axis, size) == inputDimensions

ExtractSubtensorShape(inputDimensions, axis, size) == WithDim(inputDimensions, axis, size)

\* Variant: the offset is advanced before the node is created from it.
RECURSIVE CreateExtractSubtensorsAdvanceFirst(_, _, _, _, _, _, _)
CreateExtractSubtensorsAdvanceFirst(g, inputTensorInfo, splitInfo, format, id, supertensorOffset, i) ==
    IF i > Len(splitInfo.m_Sizes) THEN g
    ELSE LET outputShape == ExtractSubtensorShape(inputTensorInfo.m_Dimensions,
                                                  splitInfo.m_Axis, splitInfo.m_Sizes[i])
             advanced == WithDim(supertensorOffset, splitInfo.m_Axis,
                             Dim(supertensorOffset, splitInfo.m_Axis) + splitInfo.m_Sizes[i])
             g1 == CreateAndAddNode(g, ExtractSubtensorNode(advanced, outputShape,
                       inputTensorInfo.m_QuantizationInfo, format, {id}))
         IN  CreateExtractSubtensorsAdvanceFirst(g1, inputTensorInfo, splitInfo, format,
                                                 id, advanced, i + 1)

RECURSIVE CreateExtractSubtensors(_, _, _, _, _, _, _)
CreateExtractSubtensors(g, inputTensorInfo, splitInfo, format, id, supertensorOffset, i) ==
    IF i > Len(splitInfo.m_Sizes) THEN g
    ELSE LET outputShape == ExtractSubtensorShape(inputTensorInfo.m_Dimensions,
                                                  splitInfo.m_Axis, splitInfo.m_Sizes[i])
             g1 == CreateAndAddNode(g, ExtractSubtensorNode(supertensorOffset, outputShape,
                       inputTensorInfo.m_QuantizationInfo, format, {id}))
         IN  CreateExtractSubtensors(g1, inputTensorInfo, splitInfo, format, id,
                 WithDim(supertensorOffset, splitInfo.m_Axis,
                         Dim(supertensorOffset, splitInfo.m_Axis) + splitInfo.m_Sizes[i]),
                 i + 1)

\* Variant: each ExtractSubtensor is fed by the node before it.
RECURSIVE ConnectExtractSubtensorsChained(_, _, _, _, _, _)
ConnectExtractSubtensorsChained(g, map, operation, inputNode, first, i) ==
    IF i > Len(operation.outputs) THEN Result(g, map, "ok")
    ELSE ConnectExtractSubtensorsChained(Connect(g, inputNode, first + i - 1),
             (operation.outputs[i] :> (first + i - 1)) @@ map,
             operation, first + i - 1, first, i + 1)

RECURSIVE ConnectExtractSubtensors(_, _, _, _, _, _)
ConnectExtractSubtensors(g, map, operation, inputNode, first, i) ==
    IF i > Len(operation.outputs) THEN Result(g, map, "ok")
    ELSE ConnectExtractSubtensors(Connect(g, inputNode, first + i - 1),
             (operation.outputs[i] :> (first + i - 1)) @@ map,
             operation, inputNode, first, i + 1)

\* Variant: the FormatConversion takes over the binding of the input
\* operand.
SplitRuleRebindingInput(g, map, operation, inputTensorInfo, outInfos, splitInfo, supportedLevel) ==
    LET input  == operation.inputs[1]
        format == FormatForAxis(outInfos, splitInfo.m_Axis)
        inputNode0 == Lookup(map, input)
        convert == g.nodes[inputNode0].format # format
        g1 == IF convert
              THEN LET c == CreateAndAddNode(g, FormatConversionNode(
                                inputTensorInfo.m_Dimensions,
                                inputTensorInfo.m_QuantizationInfo, format, {operation.id}))
                   IN  Connect(c, inputNode0, LastNode(c))
              ELSE g
        inputNode == IF convert THEN LastNode(g1) ELSE inputNode0
        g2 == CreateExtractSubtensors(g1, inputTensorInfo, splitInfo, format, operation.id,
                                      <<0, 0, 0, 0>>, 1)
    IN  IF supportedLevel = "EstimateOnly"
        THEN SplitEstimateOnly(g, map, operation, outInfos, inputNode0, 1)
        ELSE IF inputNode0 = 0 THEN Result(g, map, "undefined")
        ELSE ConnectExtractSubtensors(g2, (input :> inputNode) @@ map, operation, inputNode,
                                      LastNode(g1) + 1, 1)

SplitRule(g, map, operation, inputTensorInfo, outInfos, splitInfo, supportedLevel) ==
    LET input  == operation.inputs[1]
        format == FormatForAxis(outInfos, splitInfo.m_Axis)
        inputNode0 == Lookup(map, input)
        convert == g.nodes[inputNode0].format # format
        g1 == IF convert
              THEN LET c == CreateAndAddNode(g, FormatConversionNode(
                                inputTensorInfo.m_Dimensions,
                                inputTensorInfo.m_QuantizationInfo, format, {operation.id}))
                   IN  Connect(c, inputNode0, LastNode(c))
              ELSE g
        inputNode == IF convert THEN LastNode(g1) ELSE inputNode0
        g2 == CreateExtractSubtensors(g1, inputTensorInfo, splitInfo, format, operation.id,
                                      <<0, 0, 0, 0>>, 1)
    IN  IF supportedLevel = "EstimateOnly"
        THEN SplitEstimateOnly(g, map, operation, outInfos, inputNode0, 1)
        ELSE IF inputNode0 = 0 THEN Result(g, map, "undefined")
        ELSE ConnectExtractSubtensors(g2, map, operation, inputNode, LastNode(g1) + 1, 1)

(***************************************************************************)
(* Convolution and DepthwiseConvolution.                                   *)
(***************************************************************************)
\* The additional layer before a strided convolution.
\* Variant: the interleave node gets the height and width rounded down.
InterleaveNodeRoundDown(inputInfo, stride, id) ==
    LET h == Dim(inputInfo.m_Dimensions, 1) \div stride.m_Y
        w == Dim(inputInfo.m_Dimensions, 2) \div stride.m_X
        c == GetNumSubmapChannels(Dim(inputInfo.m_Dimensions, 3), stride.m_X, stride.m_Y)
    IN  FuseOnlyPleOperationNode(<<Dim(inputInfo.m_Dimensions, 0), h, w, c>>,
            inputInfo.m_QuantizationInfo, "INTERLEAVE_2X2_2_2", "NHWCB",
            <<<<1, stride.m_Y>>, <<1, stride.m_X>>, stride.m_X * stride.m_Y>>, {id})

InterleaveNode(inputInfo, stride, id) ==
    LET h == DivRoundUp(Dim(inputInfo.m_Dimensions, 1), stride.m_Y)
        w == DivRoundUp(Dim(inputInfo.m_Dimensions, 2), stride.m_X)
        c == GetNumSubmapChannels(Dim(inputInfo.m_Dimensions, 3), stride.m_X, stride.m_Y)
    IN  FuseOnlyPleOperationNode(<<Dim(inputInfo.m_Dimensions, 0), h, w, c>>,
            inputInfo.m_QuantizationInfo, "INTERLEAVE_2X2_2_2", "NHWCB",
            <<<<1, stride.m_Y>>, <<1, stride.m_X>>, stride.m_X * stride.m_Y>>, {id})

IsStrided(stride) == stride.m_X > 1 \/ stride.m_Y > 1

\* assert(convInfo.m_Stride.m_X == 2 && convInfo.m_Stride.m_Y == 2)
StrideAssertFails(stride) == IsStrided(stride) /\ ~(stride.m_X = 2 /\ stride.m_Y = 2)

ConvolutionRule(g, map, operation, inputInfo, outInfo, weights, bias, convInfo, supportedLevel) ==
    LET strided == IsStrided(convInfo.m_Stride)
        g1 == IF strided
              THEN CreateAndAddNode(g, InterleaveNode(inputInfo, convInfo.m_Stride,
                                                      operation.id))
              ELSE g
        g2 == CreateAndAddNode(g1, MceOperationNode(inputInfo.m_Dimensions,
                  outInfo.m_Dimensions, outInfo.m_QuantizationInfo, weights.info,
                  weights.data, bias.info, bias.data, convInfo.m_Stride, 1,
                  convInfo.m_Padding.m_Top, convInfo.m_Padding.m_Left, "CONVOLUTION",
                  "NHWCB", {operation.id}))
    IN  IF supportedLevel = "EstimateOnly"
        THEN EstimateOnlyBranch(g, map, operation, outInfo)
        ELSE IF asserts /\ StrideAssertFails(convInfo.m_Stride)
        THEN Result(g, map, "assert")
        ELSE ConnectNodeChain(g2, map, operation,
                 IF strided THEN <<LastNode(g1), LastNode(g2)>> ELSE <<LastNode(g2)>>)

DepthwiseConvolutionRule(g, map, operation, inputInfo, outInfo, weights, bias, convInfo, supportedLevel) ==
    LET strided == IsStrided(convInfo.m_Stride)
        g1 == IF strided
              THEN CreateAndAddNode(g, InterleaveNode(inputInfo, convInfo.m_Stride,
                                                      operation.id))
              ELSE g
        multiplier == Dim(weights.info.m_Dimensions, 3) > 1
        weightInfo == IF multiplier
                      THEN [weights.info EXCEPT !.m_DataFormat = "DataFormat::HWIO"]
                      ELSE weights.info
        mceOp == IF multiplier THEN "CONVOLUTION" ELSE "DEPTHWISE_CONVOLUTION"
        g2 == CreateAndAddNode(g1, MceOperationNode(inputInfo.m_Dimensions,
                  outInfo.m_Dimensions, outInfo.m_QuantizationInfo, weightInfo,
                  weights.data, bias.info, bias.data, convInfo.m_Stride, 1,
                  convInfo.m_Padding.m_Top, convInfo.m_Padding.m_Left, mceOp,
                  "NHWCB", {operation.id}))
    IN  IF supportedLevel = "EstimateOnly"
        THEN EstimateOnlyBranch(g, map, operation, outInfo)
        ELSE IF asserts /\ StrideAssertFails(convInfo.m_Stride)
        THEN Result(g, map, "assert")
        ELSE IF asserts /\ multiplier /\ Dim(weights.info.m_Dimensions, 2) # 1
        THEN Result(g1, map, "assert")
        ELSE ConnectNodeChain(g2, map, operation,
                 IF strided THEN <<LastNode(g1), LastNode(g2)>> ELSE <<LastNode(g2)>>)

(***************************************************************************)
(* CreateTransposeConv, TransposeConvolution and DepthToSpace.             *)
(***************************************************************************)
\* std::copy_n(&src, n, &dst) between two byte vectors (offsets from 0).
CopyN(src, srcOffset, n, dst, dstOffset) ==
    [k \in 1..Len(dst) |->
        IF k > dstOffset /\ k <= dstOffset + n THEN src[srcOffset + (k - dstOffset)]
        ELSE dst[k]]

\* Offset of element (y, x, 0, 0) of a tensor of the given shape.
ElementOffset(shape, y, x, i, o) ==
    ((y * shape[2] + x) * shape[3] + i) * shape[4] + o

Zeros(n) == [k \in 1..n |-> 0]

\* Variant: each copy moves in_channels bytes, not in_channels * out_channels.
RECURSIVE RotateWeightsShortBlock(_, _, _, _)
RotateWeightsShortBlock(weightsData, weightsShape, flipped, b) ==
    IF b >= weightsShape[1] * weightsShape[2] THEN flipped
    ELSE LET y == b \div weightsShape[2]
             x == b % weightsShape[2]
             n == weightsShape[3]
         IN  RotateWeightsShortBlock(weightsData, weightsShape,
                 CopyN(weightsData, ElementOffset(weightsShape, y, x, 0, 0), n, flipped,
                       ElementOffset(weightsShape, weightsShape[1] - 1 - y,
                                     weightsShape[2] - 1 - x, 0, 0)),
                 b + 1)

\* Rotate weights by 180 in the XY plane: the loop over (y, x), block b being
\* the one at y = b / KW, x = b % KW.
RECURSIVE RotateWeights(_, _, _, _)
RotateWeights(weightsData, weightsShape, flipped, b) ==
    IF b >= weightsShape[1] * weightsShape[2] THEN flipped
    ELSE LET y == b \div weightsShape[2]
             x == b % weightsShape[2]
             n == weightsShape[3] * weightsShape[4]
             copied == CopyN(weightsData, ElementOffset(weightsShape, y, x, 0, 0), n,
                             flipped,
                             ElementOffset(weightsShape, weightsShape[1] - 1 - y,
                                           weightsShape[2] - 1 - x, 0, 0))
         IN  \* The comparison has TLC work out the copy of this block before
             \* it goes on to the next one, as the loop does.
             IF copied = copied
             THEN RotateWeights(weightsData, weightsShape, copied, b + 1)
             ELSE flipped

FlipWeights(weightsData, weightsShape) ==
    RotateWeights(weightsData, weightsShape, Zeros(Len(weightsData)), 0)

MaxUpscaleKernel == 7

\* Variant: the upscale factor is not reset after the identity node.
CreateTransposeConvUpscalingTwice(g, stride, weightsInfo, weightsData, biasInfo, biasData, padding, inputInfo, outputInfo, sourceOperationId) ==
    LET weightsShape   == weightsInfo.m_Dimensions
        large == weightsShape[1] > MaxUpscaleKernel \/ weightsShape[2] > MaxUpscaleKernel
        inputShape0 == inputInfo.m_Dimensions
        intermediateOutputShape ==
            <<inputShape0[1], inputShape0[2] * stride.m_X, inputShape0[3] * stride.m_X,
              inputShape0[4]>>
        numIfm == inputShape0[4]
        g1 == IF large
              THEN CreateAndAddNode(g, MceOperationNode(inputShape0,
                       intermediateOutputShape, inputInfo.m_QuantizationInfo,
                       TensorInfo(<<1, 1, numIfm, 1>>, "UINT8_QUANTIZED", "DataFormat::HWIM",
                                  QuantizationInfo(0, ScaleHalf)),
                       [k \in 1..numIfm |-> 2],
                       TensorInfo(<<1, 1, 1, numIfm>>, "INT32_QUANTIZED", "DataFormat::NHWC",
                                  QuantizationInfo(0, ScaleTimes(ScaleHalf,
                                                      inputInfo.m_QuantizationInfo.m_Scale))),
                       Zeros(numIfm), Stride(1, 1), stride.m_X, 0, 0,
                       "DEPTHWISE_CONVOLUTION", "NHWCB", {sourceOperationId}))
              ELSE g
        inputShape == IF large THEN intermediateOutputShape ELSE inputShape0
        g2 == CreateAndAddNode(g1, MceOperationNode(inputShape, outputInfo.m_Dimensions,
                  outputInfo.m_QuantizationInfo, weightsInfo,
                  FlipWeights(weightsData, weightsShape), biasInfo, biasData,
                  Stride(1, 1), stride.m_X, weightsShape[1] - 1 - padding.m_Top,
                  weightsShape[2] - 1 - padding.m_Left,
                  "CONVOLUTION", "NHWCB", {sourceOperationId}))
    IN  IF asserts /\ stride.m_X # stride.m_Y
        THEN [graph |-> g, nodes |-> <<>>, status |-> "assert"]
        ELSE [graph |-> g2,
              nodes |-> IF large THEN <<LastNode(g1), LastNode(g2)>> ELSE <<LastNode(g2)>>,
              status |-> "ok"]

\* Yields the graph with the new nodes and the list of those nodes.
\* topMcePadding and leftMcePadding are uint32_t: a value is held as the
\* integer with the same 32 bits in two's complement, so that a subtraction
\* that wraps round to 2^32 - d shows as -d.
CreateTransposeConv(g, stride, weightsInfo, weightsData, biasInfo, biasData, padding, inputInfo, outputInfo, sourceOperationId) ==
    LET weightsShape   == weightsInfo.m_Dimensions
        topMcePadding  == weightsShape[1] - 1 - padding.m_Top
        leftMcePadding == weightsShape[2] - 1 - padding.m_Left
        large == weightsShape[1] > MaxUpscaleKernel \/ weightsShape[2] > MaxUpscaleKernel
        inputShape0 == inputInfo.m_Dimensions
        intermediateOutputShape ==
            <<inputShape0[1], inputShape0[2] * stride.m_X, inputShape0[3] * stride.m_X,
              inputShape0[4]>>
        numIfm == inputShape0[4]
        identityWeightInfo ==
            TensorInfo(<<1, 1, numIfm, 1>>, "UINT8_QUANTIZED", "DataFormat::HWIM",
                       QuantizationInfo(0, ScaleHalf))
        identityBiasInfo ==
            TensorInfo(<<1, 1, 1, numIfm>>, "INT32_QUANTIZED", "DataFormat::NHWC",
                       QuantizationInfo(0, ScaleTimes(ScaleHalf,
                                           inputInfo.m_QuantizationInfo.m_Scale)))
        g1 == IF large
              THEN CreateAndAddNode(g, MceOperationNode(inputShape0,
                       intermediateOutputShape, inputInfo.m_QuantizationInfo,
                       identityWeightInfo, [k \in 1..numIfm |-> 2], identityBiasInfo,
                       Zeros(numIfm), Stride(1, 1), stride.m_X, 0, 0,
                       "DEPTHWISE_CONVOLUTION", "NHWCB", {sourceOperationId}))
              ELSE g
        upscaleFactor == IF large THEN 1 ELSE stride.m_X
        inputShape    == IF large THEN intermediateOutputShape ELSE inputShape0
        g2 == CreateAndAddNode(g1, MceOperationNode(inputShape, outputInfo.m_Dimensions,
                  outputInfo.m_QuantizationInfo, weightsInfo,
                  FlipWeights(weightsData, weightsShape), biasInfo, biasData,
                  Stride(1, 1), upscaleFactor, topMcePadding, leftMcePadding,
                  "CONVOLUTION", "NHWCB", {sourceOperationId}))
    IN  IF asserts /\ stride.m_X # stride.m_Y
        THEN [graph |-> g, nodes |-> <<>>, status |-> "assert"]
        ELSE [graph |-> g2,
              nodes |-> IF large THEN <<LastNode(g1), LastNode(g2)>> ELSE <<LastNode(g2)>>,
              status |-> "ok"]

TransposeConvolutionRule(g, map, operation, inputInfo, outInfo, weights, bias, convInfo, supportedLevel) ==
    LET built == CreateTransposeConv(g, convInfo.m_Stride, weights.info, weights.data,
                     bias.info, bias.data, convInfo.m_Padding, inputInfo, outInfo,
                     operation.id)
    IN  IF supportedLevel = "EstimateOnly"
        THEN EstimateOnlyBranch(g, map, operation, outInfo)
        ELSE IF built.status # "ok" THEN Result(g, map, built.status)
        ELSE ConnectNodeChain(built.graph, map, operation, built.nodes)

\* Variant: the four input channels of an output channel lie side by side.
RECURSIVE SetSelectorsSideBySide(_, _, _, _, _, _)
SetSelectorsSideBySide(weightsData, weightsShape, blockSize, inputChannels, outputChannels, e) ==
    IF e >= outputChannels * blockSize * blockSize THEN weightsData
    ELSE LET ofmIdx == e \div (blockSize * blockSize)
             v == (e % (blockSize * blockSize)) \div blockSize
             u == e % blockSize
             ifmIdx == ofmIdx * blockSize * blockSize + v * blockSize + u
             at == ElementOffset(weightsShape, v, u, ifmIdx, ofmIdx) + 1
             set == [weightsData EXCEPT ![at] = 2]
         IN  IF set = set
             THEN SetSelectorsSideBySide(set, weightsShape, blockSize, inputChannels,
                                         outputChannels, e + 1)
             ELSE weightsData

\* weights.SetElement(v, u, ifmIdx, ofmIdx, 1 / weightsScale) for every ofmIdx,
\* v and u; e counts the (ofmIdx, v, u) triples in loop order.
RECURSIVE SetSelectors(_, _, _, _, _, _)
SetSelectors(weightsData, weightsShape, blockSize, inputChannels, outputChannels, e) ==
    IF e >= outputChannels * blockSize * blockSize THEN weightsData
    ELSE LET ofmIdx == e \div (blockSize * blockSize)
             v == (e % (blockSize * blockSize)) \div blockSize
             u == e % blockSize
             ifmBase   == ofmIdx
             ifmStride == inputChannels \div (blockSize * blockSize)
             ifmWithinBlock == v * blockSize + u
             ifmIdx == ifmBase + ifmWithinBlock * ifmStride
             at == ElementOffset(weightsShape, v, u, ifmIdx, ofmIdx) + 1
             set == [weightsData EXCEPT ![at] = 2]
         IN  \* The comparison has TLC store this element before it goes on to
             \* the next one, as the loop does.
             IF set = set
             THEN SetSelectors(set, weightsShape, blockSize, inputChannels,
                               outputChannels, e + 1)
             ELSE weightsData

DepthToSpaceWeights(blockSize, inputShape, outputShape) ==
    LET weightsShape == <<blockSize, blockSize, inputShape[4], outputShape[4]>>
    IN  SetSelectors(Zeros(GetNumElements(weightsShape)), weightsShape, blockSize,
                     inputShape[4], outputShape[4], 0)

DepthToSpaceRule(g, map, operation, inputInfo, outInfo, depthToSpaceInfo) ==
    LET blockSize   == depthToSpaceInfo.m_BlockSize
        inputShape  == inputInfo.m_Dimensions
        outputShape == outInfo.m_Dimensions
        weightsInfo == TensorInfo(<<blockSize, blockSize, inputShape[4], outputShape[4]>>,
                           "UINT8_QUANTIZED", "DataFormat::HWIO",
                           QuantizationInfo(0, ScaleHalf))
        biasInfo == TensorInfo(<<1, 1, 1, outputShape[4]>>, "UINT8_QUANTIZED",
                        "DataFormat::NHWC",
                        QuantizationInfo(0, ScaleTimes(ScaleHalf,
                                            inputInfo.m_QuantizationInfo.m_Scale)))
        built == CreateTransposeConv(g, Stride(blockSize, blockSize), weightsInfo,
                     DepthToSpaceWeights(blockSize, inputShape, outputShape), biasInfo,
                     Zeros(outputShape[4]), Padding(0, 0, 0, 0), inputInfo, outInfo,
                     operation.id)
    IN  IF asserts /\ blockSize # 2 THEN Result(g, map, "assert")
        ELSE IF built.status # "ok" THEN Result(g, map, built.status)
        ELSE ConnectNodeChain(built.graph, map, operation, built.nodes)

(***************************************************************************)
(* EstimateOnly.                                                           *)
(***************************************************************************)
RECURSIVE ConnectEachInput(_, _, _, _, _)
ConnectEachInput(g, map, inputs, node, i) ==
    IF i > Len(inputs) THEN Result(g, map, "ok")
    ELSE IF Lookup(map, inputs[i]) = 0 THEN Result(g, map, "undefined")
    ELSE ConnectEachInput(Connect(g, map[inputs[i]], node), map, inputs, node, i + 1)

RECURSIVE EstimateOnlyRule(_, _, _, _, _)
EstimateOnlyRule(g, map, operation, outInfos, i) ==
    IF i > Len(operation.outputs) THEN Result(g, map, "ok")
    ELSE LET g1 == CreateAndAddNode(g, EstimateOnlyNode(outInfos[i].m_Dimensions,
                       outInfos[i].m_QuantizationInfo, "NHWCB", {operation.id}))
             map1 == (operation.outputs[i] :> LastNode(g1)) @@ map
             connected == ConnectEachInput(g1, map1, operation.inputs, LastNode(g1), 1)
         IN  IF connected.status # "ok" THEN connected
             ELSE EstimateOnlyRule(connected.graph, map1, operation, outInfos, i + 1)

(***************************************************************************)
(* The operations the model draws from.                                    *)
(***************************************************************************)
Quants == {QuantizationInfo(0, 256), QuantizationInfo(3, 128)}

ActivationInfo(dims, quant) ==
    TensorInfo(dims, "UINT8_QUANTIZED", "DataFormat::NHWC", quant)

InputInfos ==
    {TensorInfo(<<1, 16, 8, 16>>, "UINT8_QUANTIZED", "DataFormat::NHWCB",
                QuantizationInfo(0, 256)),
     TensorInfo(<<1, 16, 8, 16>>, "UINT8_QUANTIZED", "DataFormat::NHWC",
                QuantizationInfo(3, 128)),
     TensorInfo(<<1, 8, 8, 3>>, "UINT8_QUANTIZED", "DataFormat::NHWCB",
                QuantizationInfo(3, 128)),
     TensorInfo(<<1, 8, 8, 3>>, "UINT8_QUANTIZED", "DataFormat::NHWC",
                QuantizationInfo(0, 256))}

ConstantInfos == {ActivationInfo(<<1, 1, 1, 4>>, q) : q \in Quants}

ConstantData == <<1, 2, 3, 4>>

\* The tensor info of an output that the operation's parameters do not fix
\* here.
OutputInfos == {ActivationInfo(<<1, 4, 4, 8>>, QuantizationInfo(3, 128))}

ConcatenationInfos ==
    {[m_Axis |-> 3, m_OutputQuantizationInfo |-> QuantizationInfo(0, 256)],
     [m_Axis |-> 1, m_OutputQuantizationInfo |-> QuantizationInfo(3, 128)]}

Axes == {1, 3}

SizeParts == {8}

\* The ways to cut a dimension d into k sizes, all but the last from parts.
RECURSIVE SizesFrom(_, _, _)
SizesFrom(parts, d, k) ==
    IF k = 1 THEN IF d > 0 THEN {<<d>>} ELSE {}
    ELSE UNION {{<<a>> \o rest : rest \in SizesFrom(parts, d - a, k - 1)} : a \in parts}

SizesOf(d, k) == SizesFrom(SizeParts, d, k)

SplitInfosFrom(parts, inputInfo) ==
    UNION {{[m_Axis |-> axis, m_Sizes |-> sizes] :
               sizes \in UNION {SizesFrom(parts, Dim(inputInfo.m_Dimensions, axis), k) :
                                   k \in 1..MaxOutputs}} : axis \in Axes}

SplitInfos(inputInfo) == SplitInfosFrom(SizeParts, inputInfo)

\* The tensor infos of the outputs of a Split: the input's, with the size
\* of the output on the axis.
SplitOutputInfos(inputInfo, splitInfo) ==
    [i \in 1..Len(splitInfo.m_Sizes) |->
        [inputInfo EXCEPT !.m_Dimensions = WithDim(@, splitInfo.m_Axis,
                                                   splitInfo.m_Sizes[i])]]

RECURSIVE SumOnAxis(_, _, _)
SumOnAxis(infos, axis, i) ==
    IF i > Len(infos) THEN 0
    ELSE Dim(infos[i].m_Dimensions, axis) + SumOnAxis(infos, axis, i + 1)

\* The tensor info of the output of a Concatenation: the first input's, with
\* the sum of the inputs on the axis and the quantization of the
\* concatenation info.
ConcatenationOutputInfo(inputInfos, concatInfo) ==
    [inputInfos[1] EXCEPT
        !.m_Dimensions = WithDim(@, concatInfo.m_Axis,
                                 SumOnAxis(inputInfos, concatInfo.m_Axis, 1)),
        !.m_QuantizationInfo = concatInfo.m_OutputQuantizationInfo]

PoolingInfos ==
    {PoolingInfo(8, 8, 1, 1, Padding(0, 0, 0, 0), "AVG"),
     PoolingInfo(3, 3, 1, 1, Padding(1, 1, 1, 1), "AVG"),
     PoolingInfo(2, 2, 2, 2, Padding(0, 0, 0, 0), "MAX"),
     PoolingInfo(1, 1, 1, 1, Padding(0, 0, 0, 0), "MAX")}

ConvolutionInfo(padding, stride) == [m_Padding |-> padding, m_Stride |-> stride]

ConvolutionInfos ==
    {ConvolutionInfo(Padding(1, 1, 1, 1), Stride(1, 1)),
     ConvolutionInfo(Padding(0, 0, 0, 0), Stride(2, 2)),
     ConvolutionInfo(Padding(0, 0, 0, 0), Stride(2, 1))}

Weights(dims, format, data) ==
    [info |-> TensorInfo(dims, "UINT8_QUANTIZED", format, QuantizationInfo(5, 128)),
     data |-> data]

Bias(n) ==
    [info |-> TensorInfo(<<1, 1, 1, n>>, "INT32_QUANTIZED", "DataFormat::NHWC",
                         QuantizationInfo(0, 64)),
     data |-> [k \in 1..n |-> k]]

Bytes(n) == [k \in 1..n |-> k]

ConvolutionWeights == {Weights(<<1, 1, 1, 1>>, "DataFormat::HWIO", Bytes(1))}

\* Depthwise convolutions: weights with and without a channel multiplier.
DepthwiseCases ==
    {[weights |-> Weights(<<1, 1, 1, 1>>, "DataFormat::HWIM", Bytes(1)), convInfo |-> ci] :
        ci \in ConvolutionInfos}
    \cup {[weights |-> Weights(<<1, 1, 1, 2>>, "DataFormat::HWIM", Bytes(2)),
            convInfo |-> ConvolutionInfo(Padding(0, 0, 0, 0), Stride(1, 1))]}

TransposeWeights == {Weights(<<2, 2, 1, 1>>, "DataFormat::HWIO", Bytes(4)),
                     Weights(<<8, 1, 1, 1>>, "DataFormat::HWIO", Bytes(8))}

TransposeInfos == {ConvolutionInfo(Padding(0, 0, 0, 0), Stride(2, 2))}

FullyConnectedWeights == {Weights(<<1, 1, 3, 1>>, "DataFormat::HWIO", Bytes(3))}

(***************************************************************************)
(* Visiting an operation.                                                  *)
(***************************************************************************)
CanVisit == status = "ok" /\ Len(network) < MaxOps

InfoOf(operand) == operands[operand].info

InfosOf(inputs) == [i \in 1..Len(inputs) |-> InfoOf(inputs[i])]

\* The visit of `operation` ended as `result` says.  The operation joins the
\* network with its output operands, and its inputs gain it as a consumer;
\* the operands in `closes` will have no further consumer.  supportedLevel
\* is the verdict of the support query of the operation's kind, whether or
\* not the rule asks for it; info is the operation's own info.
Visit(operation, supportedLevel, info, outInfos, closes, result) ==
    /\ m_Graph' = result.graph
    /\ m_OperandToNode' = result.map
    /\ status' = result.status
    /\ operands' =
           [o \in 1..(Len(operands) + Len(outInfos)) |->
               IF o <= Len(operands)
               THEN [operands[o] EXCEPT
                        !.consumers = @ + Count(operation.inputs, o),
                        !.closed = @ \/ o \in closes]
               ELSE Operand(outInfos[o - Len(operands)], operation.id,
                            o - Len(operands) - 1)]
    /\ network' = Append(network,
           [id |-> operation.id, kind |-> operation.kind,
            supportedLevel |-> supportedLevel, info |-> info,
            inputs |-> operation.inputs,
            outputs |-> operation.outputs,
            firstNode |-> Len(m_Graph.nodes) + 1, lastNode |-> Len(result.graph.nodes)])
    /\ UNCHANGED <<m_EstimationMode, asserts, call>>

\* An Input operation with a tensor info out of inputInfos is visited.
VisitInputFrom(inputInfos) ==
    /\ CanVisit
    /\ \E info \in inputInfos :
          LET operation == Operation("Input", <<>>, 1)
          IN  Visit(operation, "None", info, <<info>>, {},
                    InputRule(m_Graph, m_OperandToNode, operation, info))

VisitInput == VisitInputFrom(InputInfos)

VisitConstant ==
    /\ CanVisit
    /\ \E info \in ConstantInfos :
          LET operation == Operation("Constant", <<>>, 1)
          IN  Visit(operation, "None", info, <<info>>, {},
                    ConstantRule(m_Graph, m_OperandToNode, operation, info, ConstantData))

VisitOutput ==
    /\ CanVisit
    /\ \E inputs \in InputLists(1), format \in {"DataFormat::NHWC", "DataFormat::NHWCB"} :
          LET operation == Operation("Output", inputs, 0)
              info == [InfoOf(inputs[1]) EXCEPT !.m_DataFormat = format]
          IN  Visit(operation, "None", info, <<>>, {},
                    OutputRule(m_Graph, m_OperandToNode, operation, info))

VisitRelu ==
    /\ CanVisit
    /\ \E inputs \in InputLists(1), supportedLevel \in SupportedLevels :
          LET operation == Operation("Relu", inputs, 1)
              outInfo == InfoOf(inputs[1])
              reluInfo == [m_LowerBound |-> 0, m_UpperBound |-> 255]
          IN  Visit(operation, supportedLevel, reluInfo, <<outInfo>>, {},
                    ReluRule(m_Graph, m_OperandToNode, operation, outInfo, reluInfo))

VisitSigmoid ==
    /\ CanVisit
    /\ \E inputs \in InputLists(1), supportedLevel \in SupportedLevels :
          LET operation == Operation("Sigmoid", inputs, 1)
              outInfo == [InfoOf(inputs[1]) EXCEPT
                             !.m_QuantizationInfo = QuantizationInfo(0, 1)]
          IN  Visit(operation, supportedLevel, NoArgs, <<outInfo>>, {},
                    SigmoidRule(m_Graph, m_OperandToNode, operation, outInfo))

VisitSoftmax ==
    /\ CanVisit
    /\ \E inputs \in InputLists(1), supportedLevel \in SupportedLevels :
          LET operation == Operation("Softmax", inputs, 1)
              outInfo == InfoOf(inputs[1])
          IN  Visit(operation, supportedLevel, NoArgs, <<outInfo>>, {},
                    SoftmaxRule(m_Graph, m_OperandToNode, operation, outInfo,
                                supportedLevel))

\* A Pooling operation with a pooling info out of poolingInfos is visited.
VisitPoolingFrom(poolingInfos) ==
    /\ CanVisit
    /\ \E inputs \in InputLists(1), poolingInfo \in poolingInfos,
          supportedLevel \in SupportedLevels :
          LET operation == Operation("Pooling", inputs, 1)
              inputInfo == InfoOf(inputs[1])
              outInfo == [inputInfo EXCEPT !.m_Dimensions =
                  <<@[1], DivRoundUp(@[2], poolingInfo.m_PoolingStrideY),
                    DivRoundUp(@[3], poolingInfo.m_PoolingStrideX), @[4]>>]
          IN  Visit(operation, supportedLevel, poolingInfo, <<outInfo>>, {},
                    PoolingRule(m_Graph, m_OperandToNode, operation, inputInfo, outInfo,
                                poolingInfo, supportedLevel))

VisitPooling == VisitPoolingFrom(PoolingInfos)

VisitReshape ==
    /\ CanVisit
    /\ \E inputs \in InputLists(1), shape \in {<<1, 8, 16, 16>>, <<1, 16, 8, 16>>},
          supportedLevel \in SupportedLevels :
          LET operation == Operation("Reshape", inputs, 1)
              inputInfo == InfoOf(inputs[1])
              outInfo == [inputInfo EXCEPT !.m_Dimensions = shape]
          IN  Visit(operation, supportedLevel, shape, <<outInfo>>, {},
                    ReshapeRule(m_Graph, m_OperandToNode, operation, inputInfo, outInfo))

\* A FullyConnected operation with weights out of weightsSet is visited.
VisitFullyConnectedFrom(weightsSet) ==
    /\ CanVisit
    /\ \E inputs \in InputLists(1), weights \in weightsSet,
          outInfo \in {ActivationInfo(<<1, 1, 1, 1>>, QuantizationInfo(0, 256))},
          supportedLevel \in SupportedLevels :
          LET operation == Operation("FullyConnected", inputs, 1)
          IN  Visit(operation, supportedLevel, [weights |-> weights, bias |-> Bias(1)],
                    <<outInfo>>, {},
                    FullyConnectedRule(m_Graph, m_OperandToNode, operation,
                                       InfoOf(inputs[1]), outInfo, weights, Bias(1)))

VisitFullyConnected == VisitFullyConnectedFrom(FullyConnectedWeights)

VisitAddition ==
    /\ CanVisit
    /\ \E inputs \in InputLists(2), supportedLevel \in SupportedLevels :
          LET operation == Operation("Addition", inputs, 1)
              outInfo == InfoOf(inputs[1])
          IN  Visit(operation, supportedLevel, NoArgs, <<outInfo>>, {},
                    AdditionRule(m_Graph, m_OperandToNode, operation, InfoOf(inputs[1]),
                                 InfoOf(inputs[2]), outInfo, supportedLevel))

VisitConcatenation ==
    /\ CanVisit
    /\ \E n \in 1..MaxInputs :
       \E inputs \in InputLists(n), concatInfo \in ConcatenationInfos,
          supportedLevel \in SupportedLevels :
       \E later \in IF m_EstimationMode THEN {{}} ELSE SUBSET Range(inputs) :
          LET operation == Operation("Concatenation", inputs, 1)
              outInfo == ConcatenationOutputInfo(InfosOf(inputs), concatInfo)
              consumersSize ==
                  [i \in 1..n |-> operands[inputs[i]].consumers + Count(inputs, inputs[i])
                                    + IF inputs[i] \in later THEN 1 ELSE 0]
          IN  Visit(operation, supportedLevel,
                    [concatInfo |-> concatInfo, consumersSize |-> consumersSize],
                    <<outInfo>>,
                    IF m_EstimationMode THEN {} ELSE Range(inputs) \ later,
                    ConcatenationRule(m_Graph, m_OperandToNode, operation, InfosOf(inputs),
                                      outInfo, concatInfo, supportedLevel, consumersSize))

VisitSplitFrom(parts) ==
    /\ CanVisit
    /\ \E inputs \in InputLists(1), supportedLevel \in SupportedLevels :
       \E splitInfo \in SplitInfosFrom(parts, InfoOf(inputs[1])) :
          LET operation == Operation("Split", inputs, Len(splitInfo.m_Sizes))
              outInfos == SplitOutputInfos(InfoOf(inputs[1]), splitInfo)
          IN  Visit(operation, supportedLevel, splitInfo, outInfos, {},
                    SplitRule(m_Graph, m_OperandToNode, operation, InfoOf(inputs[1]),
                              outInfos, splitInfo, supportedLevel))

VisitSplit == VisitSplitFrom(SizeParts)

VisitDepthwiseConvolutionFrom(cases) ==
    /\ CanVisit
    /\ \E inputs \in InputLists(1), case \in cases, outInfo \in OutputInfos,
          supportedLevel \in SupportedLevels :
          LET operation == Operation("DepthwiseConvolution", inputs, 1)
          IN  Visit(operation, supportedLevel, case, <<outInfo>>, {},
                    DepthwiseConvolutionRule(m_Graph, m_OperandToNode, operation,
                        InfoOf(inputs[1]), outInfo, case.weights, Bias(1), case.convInfo,
                        supportedLevel))

VisitDepthwiseConvolution == VisitDepthwiseConvolutionFrom(DepthwiseCases)

VisitConvolutionFrom(weightsSet, convInfos) ==
    /\ CanVisit
    /\ \E inputs \in InputLists(1), weights \in weightsSet,
          convInfo \in convInfos, outInfo \in OutputInfos,
          supportedLevel \in SupportedLevels :
          LET operation == Operation("Convolution", inputs, 1)
          IN  Visit(operation, supportedLevel,
                    [weights |-> weights, convInfo |-> convInfo], <<outInfo>>, {},
                    ConvolutionRule(m_Graph, m_OperandToNode, operation,
                        InfoOf(inputs[1]), outInfo, weights, Bias(1), convInfo,
                        supportedLevel))

VisitConvolution == VisitConvolutionFrom(ConvolutionWeights, ConvolutionInfos)

\* cases: triples of the weights, the convolution info and the verdict of
\* IsTransposeConvolutionSupported for them.
VisitTransposeConvolutionFrom(cases) ==
    /\ CanVisit
    /\ \E inputs \in InputLists(1), case \in cases, outInfo \in OutputInfos :
          LET operation == Operation("TransposeConvolution", inputs, 1)
              weights == case[1]
              convInfo == case[2]
              supportedLevel == case[3]
          IN  Visit(operation, supportedLevel,
                    [weights |-> weights, convInfo |-> convInfo], <<outInfo>>, {},
                    TransposeConvolutionRule(m_Graph, m_OperandToNode, operation,
                        InfoOf(inputs[1]), outInfo, weights, Bias(1), convInfo,
                        supportedLevel))

VisitTransposeConvolution ==
    VisitTransposeConvolutionFrom(TransposeWeights \X TransposeInfos \X SupportedLevels)

VisitDepthToSpace ==
    /\ CanVisit
    /\ \E inputs \in InputLists(1), supportedLevel \in SupportedLevels :
          LET operation == Operation("DepthToSpace", inputs, 1)
              inputInfo == InfoOf(inputs[1])
              outInfo == [inputInfo EXCEPT !.m_Dimensions =
                             <<@[1], @[2] * 2, @[3] * 2, @[4] \div 4>>]
          IN  /\ Dim(inputInfo.m_Dimensions, 3) % 4 = 0
              /\ Visit(operation, supportedLevel, [m_BlockSize |-> 2], <<outInfo>>, {},
                       DepthToSpaceRule(m_Graph, m_OperandToNode, operation, inputInfo,
                                        outInfo, [m_BlockSize |-> 2]))

VisitEstimateOnly ==
    /\ CanVisit
    /\ \E n \in 0..MaxInputs, k \in 1..MaxOutputs :
       \E inputs \in InputLists(n), info \in OutputInfos :
          LET operation == Operation("EstimateOnly", inputs, k)
              outInfos == [i \in 1..k |-> info]
          IN  Visit(operation, "None", NoArgs, outInfos, {},
                    EstimateOnlyRule(m_Graph, m_OperandToNode, operation, outInfos, 1))

\* No helper function is called on its own during a pass.
NoCall == <<>>

Init ==
    /\ m_Graph = EmptyGraph
    /\ m_OperandToNode = <<>>
    /\ m_EstimationMode \in BOOLEAN
    /\ asserts \in BOOLEAN
    /\ operands = <<>>
    /\ network = <<>>
    /\ status = "ok"
    /\ call = NoCall

Next ==
    \/ VisitInput
    \/ VisitConstant
    \/ VisitOutput
    \/ VisitRelu
    \/ VisitSigmoid
    \/ VisitSoftmax
    \/ VisitPooling
    \/ VisitReshape
    \/ VisitFullyConnected
    \/ VisitAddition
    \/ VisitConcatenation
    \/ VisitSplit
    \/ VisitDepthwiseConvolution
    \/ VisitConvolution
    \/ VisitTransposeConvolution
    \/ VisitDepthToSpace
    \/ VisitEstimateOnly

Spec == Init /\ [][Next]_vars

(***************************************************************************)
(* Properties.  Nodes and edges are known by their position in the graph,  *)
(* visits by their position in the network.                                *)
(***************************************************************************)
Nodes == 1..Len(m_Graph.nodes)

Edges == 1..Len(m_Graph.edges)

Visits == 1..Len(network)

\* The visit during which node n was created.
CreatedBy(n) ==
    CHOOSE k \in Visits : network[k].firstNode <= n /\ n <= network[k].lastNode

NodesOf(k) == network[k].firstNode..network[k].lastNode

\* Visit k ran to its end.
Completed(k) == k < Len(network) \/ status = "ok"

Lowered(k, kind, supportedLevel) ==
    /\ network[k].kind = kind
    /\ network[k].supportedLevel = supportedLevel
    /\ Completed(k)

\* C1: after a successful conversion every bound operand is bound to a node
\* whose shape and quantization are those of the operand's tensor info.
C1_OperandToNodeAgrees ==
    status = "ok" =>
        \A o \in DOMAIN m_OperandToNode :
            /\ m_OperandToNode[o] \in Nodes
            /\ m_Graph.nodes[m_OperandToNode[o]].shape = operands[o].info.m_Dimensions
            /\ m_Graph.nodes[m_OperandToNode[o]].quant =
                   operands[o].info.m_QuantizationInfo

\* A Split lowered to two ExtractSubtensor nodes, one of whose outputs a
\* Concatenation then lowered to a Concat node, all outputs bound.
C1_Witness ==
    /\ status = "ok"
    /\ \E k, c \in Visits :
          /\ Lowered(k, "Split", "Supported")
          /\ Len(network[k].outputs) = 2
          /\ Lowered(c, "Concatenation", "Supported")
          /\ network[c].inputs[1] \in Range(network[k].outputs)
          /\ Range(network[k].outputs) \cup Range(network[c].outputs)
                 \subseteq DOMAIN m_OperandToNode

\* Nodes left after the nodes without an input from the remaining nodes
\* have been taken away, again and again: empty exactly for a graph
\* without a cycle.
RECURSIVE Peel(_)
Peel(remaining) ==
    LET roots == {n \in remaining :
                     \A e \in Edges :
                         m_Graph.edges[e].dest = n => m_Graph.edges[e].source \notin remaining}
    IN  IF roots = {} THEN remaining ELSE Peel(remaining \ roots)

\* C2: the lowered graph is acyclic after any sequence of visits.
C2_Acyclic == Peel(Nodes) = {}

\* A Concat with a node spliced onto one of its inputs: the spliced node
\* was created after the Concat it feeds.
C2_Witness ==
    /\ status = "ok"
    /\ \E e \in Edges :
          /\ m_Graph.nodes[m_Graph.edges[e].dest].kind = "Concat"
          /\ m_Graph.edges[e].source > m_Graph.edges[e].dest

\* The layout a node is declared to take at its inputs.  A FormatConversion
\* takes either layout; a Reinterpret takes NHWC; ExtractSubtensor, Concat
\* and Requantize work in their own layout; an Output takes the layout of
\* the output's tensor info; the MCE, PLE and EstimateOnly nodes take NHWCB.
ExpectedInputFormat(c, p) ==
    LET kind == m_Graph.nodes[c].kind
    IN  CASE kind = "FormatConversion" -> m_Graph.nodes[p].format
          [] kind = "Reinterpret" -> "NHWC"
          [] kind \in {"ExtractSubtensor", "Concat", "Requantize"} -> m_Graph.nodes[c].format
          [] kind = "Output" ->
                ConvertExternalToCompilerDataFormat(network[CreatedBy(c)].info.m_DataFormat)
          [] OTHER -> "NHWCB"

LayoutMatches(e) ==
    m_Graph.nodes[m_Graph.edges[e].source].format =
        ExpectedInputFormat(m_Graph.edges[e].dest, m_Graph.edges[e].source)

\* C3, as stated: in the finished graph the producer of every edge has the
\* layout its consumer expects.
C3_EveryEdgeLayoutMatches == status = "ok" => \A e \in Edges : LayoutMatches(e)

\* C3, amended: the producer has the expected layout on every edge into a
\* Reinterpret, ExtractSubtensor, Concat, Requantize or Output node, the
\* nodes of the rules that look at the producer's layout.
C3_InspectedEdgeLayoutMatches ==
    status = "ok" =>
        \A e \in Edges :
            m_Graph.nodes[m_Graph.edges[e].dest].kind \in
                {"Reinterpret", "ExtractSubtensor", "Concat", "Requantize", "Output"}
            => LayoutMatches(e)

\* An NHWC Concat fed through a spliced FormatConversion, and its NHWC
\* output consumed by a node that was connected to it directly.
C3_Witness ==
    /\ status = "ok"
    /\ \E e, f \in Edges :
          /\ m_Graph.nodes[m_Graph.edges[e].dest].kind = "Concat"
          /\ m_Graph.nodes[m_Graph.edges[e].dest].format = "NHWC"
          /\ m_Graph.nodes[m_Graph.edges[e].source].kind = "FormatConversion"
          /\ m_Graph.edges[f].source = m_Graph.edges[e].dest

\* The ids the code gives the nodes it creates while visiting k: those of
\* the operation itself, but for an Output those of the operation that
\* produces the output's input operand.
IdsGivenBy(k) ==
    IF network[k].kind = "Output"
    THEN {operands[network[k].inputs[1]].producer}
    ELSE {network[k].id}

\* C4, as stated: after a successful conversion every node's set of
\* operation ids is non-empty and holds only the id of the operation whose
\* visit created the node, the nodes created for an Output included.
C4_IdsOfCreatingOperation ==
    status = "ok" =>
        \A n \in Nodes :
            /\ m_Graph.nodes[n].ids # {}
            /\ m_Graph.nodes[n].ids \subseteq {network[CreatedBy(n)].id}

\* C4, amended: every node's set of operation ids is non-empty; it holds
\* only the id of the operation whose visit created the node, except that
\* the nodes created for an Output hold the id of the operation producing
\* the Output's input instead.
C4_IdsOfCreatingOperationOrProducer ==
    status = "ok" =>
        \A n \in Nodes :
            /\ m_Graph.nodes[n].ids # {}
            /\ m_Graph.nodes[n].ids \subseteq IdsGivenBy(CreatedBy(n))

\* An Output lowered to a FormatConversion and an Output node, next to
\* nodes of another operation that needed more than one node.
C4_Witness ==
    /\ status = "ok"
    /\ \E k, j \in Visits :
          /\ network[k].kind = "Output"
          /\ network[k].lastNode = network[k].firstNode + 1
          /\ network[j].kind # "Output"
          /\ network[j].lastNode > network[j].firstNode

\* C5, as stated: after a successful conversion every node that is not an
\* Input node has an input edge.
C5_EveryNodeHasInput ==
    status = "ok" =>
        \A n \in Nodes :
            m_Graph.nodes[n].kind # "Input" => Len(m_Graph.nodes[n].m_Inputs) >= 1

\* C5, amended: every node that is not an Input node and was created for
\* an operation with at least one input operand has an input edge (the
\* node of a Constant, and the nodes of an EstimateOnly operation without
\* inputs, have none).
C5_NodeOfOperationWithInputsHasInput ==
    status = "ok" =>
        \A n \in Nodes :
            (m_Graph.nodes[n].kind # "Input" /\ Len(network[CreatedBy(n)].inputs) >= 1)
            => Len(m_Graph.nodes[n].m_Inputs) >= 1

\* A Constant node, which has no input, feeding the chain of nodes of a
\* FullyConnected.
C5_Witness ==
    /\ status = "ok"
    /\ \E k \in Visits, e \in Edges :
          /\ network[k].kind = "FullyConnected"
          /\ network[k].lastNode > network[k].firstNode
          /\ m_Graph.edges[e].dest = network[k].firstNode
          /\ m_Graph.nodes[m_Graph.edges[e].source].kind = "Constant"

\* C6: once a Concatenation has been lowered to a Concat node, the node has
\* an input edge, and the node at the other end of each input edge has the
\* Concat's layout and the Concat's quantization.
C6_ConcatInputsMatch ==
    \A n \in Nodes :
        (m_Graph.nodes[n].kind = "Concat" /\ Completed(CreatedBy(n))) =>
            /\ Len(m_Graph.nodes[n].m_Inputs) >= 1
            /\ \A i \in 1..Len(m_Graph.nodes[n].m_Inputs) :
                  /\ GetInputFormat(m_Graph, n, i) = m_Graph.nodes[n].format
                  /\ GetInputQuantizationInfo(m_Graph, n, i) = m_Graph.nodes[n].quant

\* A Concat with an input of another layout and another quantization: it is
\* fed by a Requantize that is fed by a FormatConversion.
C6_Witness ==
    \E n \in Nodes :
        /\ m_Graph.nodes[n].kind = "Concat"
        /\ Completed(CreatedBy(n))
        /\ \E i \in 1..Len(m_Graph.nodes[n].m_Inputs) :
              LET r == GetInputNode(m_Graph, n, i)
              IN  /\ m_Graph.nodes[r].kind = "Requantize"
                  /\ m_Graph.nodes[GetInputNode(m_Graph, r, 1)].kind = "FormatConversion"

\* s_1 + ... + s_i
RECURSIVE SumOfSizes(_, _)
SumOfSizes(sizes, i) == IF i = 0 THEN 0 ELSE sizes[i] + SumOfSizes(sizes, i - 1)

\* C7: a Split lowered to ExtractSubtensor nodes has one node an output,
\* in order; node i has an offset of zero on every axis but the split axis
\* and of s_0 + ... + s_(i-1) on it, and the extent s_i on it; so every
\* position of the input on that axis lies in the range of exactly one node.
C7_SplitOffsetsTile ==
    \A k \in Visits :
        (network[k].kind = "Split" /\ network[k].supportedLevel # "EstimateOnly"
            /\ Completed(k)) =>
            LET sizes == network[k].info.m_Sizes
                axis  == network[k].info.m_Axis
                dims  == operands[network[k].inputs[1]].info.m_Dimensions
                node(i) == m_Graph.nodes[network[k].lastNode - Len(sizes) + i]
                from(i) == Dim(node(i).args.supertensorOffset, axis)
                to(i)   == from(i) + Dim(node(i).shape, axis)
            IN  /\ {n \in NodesOf(k) : m_Graph.nodes[n].kind = "ExtractSubtensor"} =
                       (network[k].lastNode - Len(sizes) + 1)..network[k].lastNode
                /\ \A i \in 1..Len(sizes) :
                      /\ \A a \in 0..3 :
                            a # axis => Dim(node(i).args.supertensorOffset, a) = 0
                      /\ from(i) = SumOfSizes(sizes, i - 1)
                      /\ Dim(node(i).shape, axis) = sizes[i]
                /\ \A x \in 0..(Dim(dims, axis) - 1) :
                      Cardinality({i \in 1..Len(sizes) : from(i) <= x /\ x < to(i)}) = 1
                /\ \A i \in 1..Len(sizes) : to(i) <= Dim(dims, axis)

\* A Split into two outputs, lowered to two ExtractSubtensor nodes.
C7_Witness ==
    \E k \in Visits :
        /\ Lowered(k, "Split", "Supported")
        /\ Len(network[k].info.m_Sizes) = 2
        /\ m_Graph.nodes[network[k].lastNode].kind = "ExtractSubtensor"
        /\ Dim(m_Graph.nodes[network[k].lastNode].args.supertensorOffset,
               network[k].info.m_Axis) > 0

\* The kinds of operation whose rule asks for the verdict of the support
\* query.
ConsultingKinds ==
    {"Pooling", "Softmax", "Addition", "Concatenation", "Split", "Convolution",
     "DepthwiseConvolution", "TransposeConvolution"}

Bound(operandSeq) == Range(operandSeq) \subseteq DOMAIN m_OperandToNode

\* C8: for a kind whose rule asks for the verdict, a verdict of
\* Unsupported ends the pass with NotSupportedException, and the visit has
\* created no node and bound no operand.
C8_UnsupportedAborts ==
    \A k \in Visits :
        (network[k].kind \in ConsultingKinds /\ network[k].supportedLevel = "Unsupported")
        => /\ k = Len(network)
           /\ status = "NotSupportedException"
           /\ NodesOf(k) = {}
           /\ Range(network[k].outputs) \cap DOMAIN m_OperandToNode = {}

\* Visit k created one node and no more: an EstimateOnly node in NHWCB with
\* the shape and quantization of the operation's output operand, with an
\* input from the node of each input operand, in order, and bound to the
\* output operand.
LoweredToEstimateOnly(k) ==
    LET n == network[k].firstNode
        output == network[k].outputs[1]
    IN  /\ network[k].lastNode = n
        /\ m_Graph.nodes[n].kind = "EstimateOnly"
        /\ m_Graph.nodes[n].format = "NHWCB"
        /\ m_Graph.nodes[n].shape = operands[output].info.m_Dimensions
        /\ m_Graph.nodes[n].quant = operands[output].info.m_QuantizationInfo
        /\ Len(m_Graph.nodes[n].m_Inputs) = Len(network[k].inputs)
        /\ \A i \in 1..Len(network[k].inputs) :
              GetInputNode(m_Graph, n, i) = m_OperandToNode[network[k].inputs[i]]
        /\ output \in DOMAIN m_OperandToNode
        /\ m_OperandToNode[output] = n

\* C9: for every kind of operation with one output, a verdict
\* of EstimateOnly makes the rule create exactly one node, an EstimateOnly
\* node, connected from the node of every input operand and bound to the
\* output operand.
C9_EstimateOnlyForEveryKind ==
    \A k \in Visits :
        (Len(network[k].outputs) = 1 /\ network[k].supportedLevel = "EstimateOnly"
            /\ Bound(network[k].inputs))
        => LoweredToEstimateOnly(k)

\* C10: the visit of a Concatenation ends with NotSupportedException
\* exactly when the pass is not in estimation mode and an input operand of
\* the Concatenation has more than one consumer.
C10_SharedInputRejection ==
    \A k \in Visits :
        network[k].kind = "Concatenation" =>
            ((k = Len(network) /\ status = "NotSupportedException")
             <=> (~m_EstimationMode
                  /\ \E i \in 1..Len(network[k].inputs) :
                         network[k].info.consumersSize[i] > 1))

\* Outside estimation mode, a Concatenation whose inputs have no other
\* consumer was lowered, and a later one with a shared input is rejected.
C10_Witness ==
    /\ ~m_EstimationMode
    /\ status = "NotSupportedException"
    /\ \E j, k \in Visits :
          /\ j < k
          /\ network[j].kind = "Concatenation"
          /\ network[k].kind = "Concatenation"
          /\ \E i \in 1..Len(network[k].inputs) : network[k].info.consumersSize[i] > 1

\* C11: at the moment an operation is visited, every one of its input
\* operands already has a non-null entry in m_OperandToNode, whatever kinds
\* of operation came before it.
C11_InputsBoundWhenVisited ==
    [][\A i \in 1..Len(network'[Len(network')].inputs) :
          LET operand == network'[Len(network')].inputs[i]
          IN  operand \in DOMAIN m_OperandToNode /\ m_OperandToNode[operand] # 0]_vars

(***************************************************************************)
(* The weight rotation of CreateTransposeConv on its own: weights of every *)
(* shape up to the bounds, rotated and rotated again.  The converter       *)
(* itself stays as constructed.                                            *)
(***************************************************************************)
MaxKernel == 3
MaxChannels == 2
MaxBits == 6

RotateShapes ==
    {<<kh, kw, i, o>> : kh \in 1..MaxKernel, kw \in 1..MaxKernel,
                        i \in 1..MaxChannels, o \in 1..MaxChannels}

\* Byte contents of n weights: all bytes different, and every vector of the
\* bytes 0 and 255 (for the longer ones, a descending vector).
RotateContents(n) ==
    {Bytes(n)} \cup (IF n <= MaxBits THEN [1..n -> {0, 255}]
                     ELSE {[k \in 1..n |-> 255 - k]})

ConverterIdle ==
    /\ m_Graph = EmptyGraph
    /\ m_OperandToNode = <<>>
    /\ m_EstimationMode = FALSE
    /\ asserts = TRUE
    /\ operands = <<>>
    /\ network = <<>>
    /\ status = "ok"

RotateInit ==
    /\ ConverterIdle
    /\ \E weightsShape \in RotateShapes :
       \E weightsData \in RotateContents(GetNumElements(weightsShape)) :
          call = [weightsShape |-> weightsShape, weightsData |-> weightsData,
                  results |-> <<>>]

\* The rotation applied to the weights, or to the result of the rotation
\* before.
Rotate ==
    /\ Len(call.results) < 2
    /\ call' = [call EXCEPT !.results =
                   Append(@, FlipWeights(IF @ = <<>> THEN call.weightsData ELSE @[Len(@)],
                                         call.weightsShape))]
    /\ UNCHANGED <<m_Graph, m_OperandToNode, m_EstimationMode, asserts, operands,
                   network, status>>

RotateSpec == RotateInit /\ [][Rotate]_vars

\* C12: one rotation puts original[y, x, i, o] at [KH-1-y, KW-1-x, i, o] and
\* is a permutation of the bytes (same length, every byte value as often as
\* before); two rotations give back the original byte vector.
C12_RotationIsInvolution ==
    LET shape == call.weightsShape
        original == call.weightsData
    IN  /\ Len(call.results) >= 1 =>
              LET flipped == call.results[1]
              IN  /\ Len(flipped) = Len(original)
                  /\ \A y \in 0..(shape[1] - 1), x \in 0..(shape[2] - 1),
                        i \in 0..(shape[3] - 1), o \in 0..(shape[4] - 1) :
                        flipped[ElementOffset(shape, shape[1] - 1 - y, shape[2] - 1 - x,
                                              i, o) + 1]
                            = original[ElementOffset(shape, y, x, i, o) + 1]
                  /\ \A v \in Range(original) \cup Range(flipped) :
                        Count(flipped, v) = Count(original, v)
        /\ Len(call.results) = 2 => call.results[2] = original

\* Weights of shape (3, 2, 2, 2) with all bytes different, rotated twice; the
\* first rotation changed them.
C12_Witness ==
    /\ call.weightsShape = <<3, 2, 2, 2>>
    /\ call.weightsData = Bytes(24)
    /\ Len(call.results) = 2
    /\ call.results[1] # call.weightsData
    /\ call.results[1][1] = 21

\* The nodes the input edges of node n come from, in input order.
SourcesOf(n) ==
    [i \in 1..Len(m_Graph.nodes[n].m_Inputs) |->
        m_Graph.edges[m_Graph.nodes[n].m_Inputs[i]].source]

\* Node n has the given kind, shape and format.
IsNode(n, kind, shape, format) ==
    /\ m_Graph.nodes[n].kind = kind
    /\ m_Graph.nodes[n].shape = shape
    /\ m_Graph.nodes[n].format = format

\* Visit k2 is a Reshape of the output of the Reshape of visit k1, back to
\* the shape of the input of k1.
CancellingReshapes(k1, k2) ==
    /\ k1 < k2
    /\ network[k1].kind = "Reshape" /\ network[k2].kind = "Reshape"
    /\ network[k2].inputs = network[k1].outputs
    /\ network[k2].info = InfoOf(network[k1].inputs[1]).m_Dimensions
    /\ Completed(k2)

\* C13: a lowered Reshape is the chain [FormatConversion to NHWC iff the
\* node producing its input is not NHWC, Reinterpret (output shape, NHWC),
\* FormatConversion (output shape, NHWCB)], fed by the producer and bound to
\* the output operand.  Two Reshapes A -> B -> A give two Reinterpret nodes,
\* the second chain starts with a FormatConversion to NHWC, and the final
\* operand's node has the shape of the original input and layout NHWCB.
C13_ReshapeChain ==
    /\ \A k \in Visits :
          network[k].kind = "Reshape" /\ Completed(k) =>
              LET producer == m_OperandToNode[network[k].inputs[1]]
                  convert  == m_Graph.nodes[producer].format # "NHWC"
                  first    == network[k].firstNode
                  reinterpret == IF convert THEN first + 1 ELSE first
                  inShape  == InfoOf(network[k].inputs[1]).m_Dimensions
                  outShape == network[k].info
              IN  /\ network[k].lastNode = reinterpret + 1
                  /\ convert => IsNode(first, "FormatConversion", inShape, "NHWC")
                  /\ IsNode(reinterpret, "Reinterpret", outShape, "NHWC")
                  /\ IsNode(reinterpret + 1, "FormatConversion", outShape, "NHWCB")
                  /\ SourcesOf(first) = <<producer>>
                  /\ \A n \in (first + 1)..(reinterpret + 1) : SourcesOf(n) = <<n - 1>>
                  /\ m_OperandToNode[network[k].outputs[1]] = reinterpret + 1
    /\ \A k1, k2 \in Visits :
          CancellingReshapes(k1, k2) =>
              LET final == m_OperandToNode[network[k2].outputs[1]]
              IN  /\ Cardinality({n \in NodesOf(k1) \cup NodesOf(k2) :
                                     m_Graph.nodes[n].kind = "Reinterpret"}) = 2
                  /\ IsNode(network[k2].firstNode, "FormatConversion",
                            network[k1].info, "NHWC")
                  /\ IsNode(final, "FormatConversion",
                            InfoOf(network[k1].inputs[1]).m_Dimensions, "NHWCB")

\* An NHWC Input of shape (1,16,8,16) reshaped to (1,8,16,16) and back, the
\* pass complete: two nodes for the Input and three for each Reshape.
C13_Witness ==
    /\ status = "ok"
    /\ Len(network) = 3
    /\ CancellingReshapes(2, 3)
    /\ network[1].kind = "Input"
    /\ network[2].info = <<1, 8, 16, 16>>
    /\ Len(m_Graph.nodes) = 8

\* The kinds of operation whose rule hands all the nodes it creates, in the
\* order of their creation, to one call of ConnectNodeChain (or ConnectNode)
\* and changes the graph and the map in no other way.
ChainKinds ==
    {"Input", "Constant", "Output", "Relu", "Sigmoid", "Softmax", "Pooling", "Reshape",
     "FullyConnected", "Addition", "DepthwiseConvolution", "Convolution",
     "TransposeConvolution", "DepthToSpace"}

\* The edges ConnectNodeChain is said to add for a chain first..last and the
\* given input operands: the successive pairs, then one edge per input
\* operand, in operand order, from the node the operand is bound to.
ChainEdges(first, last, inputs) ==
    [j \in 1..(last - first) |-> [source |-> first + j - 1, dest |-> first + j]]
    \o [i \in 1..Len(inputs) |-> [source |-> m_OperandToNode[inputs[i]], dest |-> first]]

\* C14: ConnectNodeChain, for a non-empty chain and an operation with at
\* most one output, adds one edge between each consecutive pair of the
\* chain and one edge from the node of each input operand to the front, in
\* operand order; it binds output 0 (if there is one) to the back of the
\* chain; it adds no other edge and changes no other entry of the map.
C14_ConnectNodeChainFrame ==
    [][LET e      == network'[Len(network')]
           first  == e.firstNode
           last   == e.lastNode
           added  == ChainEdges(first, last, e.inputs)
           oldE   == Len(m_Graph.edges)
       IN  e.kind \in ChainKinds /\ status' = "ok" /\ last >= first =>
               /\ Len(e.outputs) <= 1
               /\ m_Graph'.edges = m_Graph.edges \o added
               /\ \A n \in 1..Len(m_Graph.nodes) : m_Graph'.nodes[n] = m_Graph.nodes[n]
               /\ \A n \in (first + 1)..last :
                     m_Graph'.nodes[n].m_Inputs = <<oldE + (n - first)>>
               /\ m_Graph'.nodes[first].m_Inputs =
                     [i \in 1..Len(e.inputs) |-> oldE + (last - first) + i]
               /\ m_OperandToNode' =
                     IF Len(e.outputs) > 0
                     THEN (e.outputs[1] :> last) @@ m_OperandToNode
                     ELSE m_OperandToNode]_vars

\* An Addition of two operands bound to different nodes, connected in
\* operand order, after a Reshape whose chain has three nodes.
C14_Witness ==
    /\ status = "ok"
    /\ Len(network) = 3
    /\ network[2].kind = "Reshape"
    /\ network[2].lastNode = network[2].firstNode + 2
    /\ network[3].kind = "Addition"
    /\ network[3].inputs = <<2, 1>>
    /\ SourcesOf(network[3].firstNode) = <<m_OperandToNode[2], m_OperandToNode[1]>>
    /\ m_OperandToNode[3] = network[3].firstNode

\* C15: a lowered Output is a FormatConversion to the output's declared
\* layout, present iff the node producing the input has another layout,
\* followed by one Output node carrying the producer's output index; every
\* node of the rule has the provenance set {id of the producing operation},
\* which never holds the id of the Output operation.
C15_OutputRule ==
    \A k \in Visits :
        network[k].kind = "Output" /\ Completed(k) =>
            LET input    == network[k].inputs[1]
                producer == m_OperandToNode[input]
                declared == ConvertExternalToCompilerDataFormat(network[k].info.m_DataFormat)
                convert  == m_Graph.nodes[producer].format # declared
                first    == network[k].firstNode
                last     == network[k].lastNode
            IN  /\ last = IF convert THEN first + 1 ELSE first
                /\ convert => /\ m_Graph.nodes[first].kind = "FormatConversion"
                              /\ m_Graph.nodes[first].format = declared
                              /\ SourcesOf(first) = <<producer>>
                /\ m_Graph.nodes[last].kind = "Output"
                /\ m_Graph.nodes[last].args.sourceOperationOutputIndex
                       = operands[input].producerOutputIndex
                /\ SourcesOf(last) = <<IF convert THEN first ELSE producer>>
                /\ \A n \in first..last :
                      /\ m_Graph.nodes[n].ids = {operands[input].producer}
                      /\ network[k].id \notin m_Graph.nodes[n].ids

\* The second output of an EstimateOnly operation (an NHWCB node) given out
\* as NHWC: a conversion and an Output node with index 1 and the id of the
\* EstimateOnly operation.
C15_Witness ==
    \E k \in Visits :
        /\ network[k].kind = "Output" /\ Completed(k)
        /\ network[k].lastNode = network[k].firstNode + 1
        /\ network[k].info.m_DataFormat = "DataFormat::NHWC"
        /\ operands[network[k].inputs[1]].producerOutputIndex = 1
        /\ network[operands[network[k].inputs[1]].producer + 1].kind = "EstimateOnly"
        /\ m_Graph.nodes[network[k].lastNode].args.sourceOperationOutputIndex = 1

(***************************************************************************)
(* Pooling on its own: an Input of a small height and width followed by    *)
(* Pooling operations of every size, stride, padding and type up to the    *)
(* bounds.                                                                 *)
(***************************************************************************)
MaxPoolingSize == 3
MaxPoolingStride == 2
MaxPoolingPad == 1

PoolingInputInfos ==
    {TensorInfo(<<1, h, w, 16>>, "UINT8_QUANTIZED", "DataFormat::NHWCB",
                QuantizationInfo(0, 256)) : h \in {1, MaxPoolingSize}, w \in {1, MaxPoolingSize}}

AllPoolingInfos ==
    {PoolingInfo(sizeX, sizeY, strideX, strideY, Padding(pad, pad, pad, pad), type) :
        sizeX \in 1..MaxPoolingSize, sizeY \in 1..MaxPoolingSize,
        strideX \in 1..MaxPoolingStride, strideY \in 1..MaxPoolingStride,
        pad \in 0..MaxPoolingPad, type \in {"AVG", "MAX"}}

PoolingInput == Len(network) = 0 /\ VisitInputFrom(PoolingInputInfos)

PoolingVisit == Len(network) > 0 /\ VisitPoolingFrom(AllPoolingInfos)

PoolingNext == PoolingInput \/ PoolingVisit

PoolingSpec == Init /\ [][PoolingNext]_vars

\* The node and PLE operation the dispatch is said to choose, by first match.
PoolingChoice(p, inputHeight, inputWidth) ==
    IF /\ p.m_PoolingSizeX = inputWidth /\ p.m_PoolingSizeY = inputHeight
       /\ p.m_Padding = Padding(0, 0, 0, 0) /\ p.m_PoolingType = "AVG"
    THEN <<"FuseOnlyPleOperation", "MEAN_XY_8X8">>
    ELSE IF /\ p.m_PoolingSizeX = 3 /\ p.m_PoolingSizeY = 3
            /\ p.m_PoolingStrideX = 1 /\ p.m_PoolingStrideY = 1 /\ p.m_PoolingType = "AVG"
    THEN <<"StandalonePleOperation", "AVGPOOL_3X3_1_1_UDMA">>
    ELSE IF /\ p.m_PoolingSizeX = 2 /\ p.m_PoolingSizeY = 2
            /\ p.m_PoolingStrideX = 2 /\ p.m_PoolingStrideY = 2 /\ p.m_PoolingType = "MAX"
    THEN <<"FuseOnlyPleOperation", "MAXPOOL_2X2_2_2">>
    ELSE IF /\ p.m_PoolingSizeX = 3 /\ p.m_PoolingSizeY = 3
            /\ p.m_PoolingStrideX = 2 /\ p.m_PoolingStrideY = 2 /\ p.m_PoolingType = "MAX"
    THEN <<"FuseOnlyPleOperation", "MAXPOOL_3X3_2_2">>
    ELSE <<"none", "none">>

\* C16: with verdict Supported, a Pooling of one of the four known shapes is
\* lowered to exactly one node, chosen by first match: the mean (size equal
\* to the input's width and height, no padding, AVG), 3x3 stride 1 AVG,
\* 2x2 stride 2 MAX, 3x3 stride 2 MAX; a FuseOnlyPle node has the shape
\* multiplier ((1, SY), (1, SX), 1).  So a 3x3 stride 1 unpadded AVG pooling
\* of a 3x3 input is a MEAN_XY_8X8.
C16_PoolingDispatch ==
    \A k \in Visits :
        LET p      == network[k].info
            inDims == InfoOf(network[k].inputs[1]).m_Dimensions
            choice == PoolingChoice(p, inDims[2], inDims[3])
            n      == network[k].firstNode
        IN  Lowered(k, "Pooling", "Supported") /\ choice[1] # "none" =>
                /\ network[k].lastNode = n
                /\ m_Graph.nodes[n].kind = choice[1]
                /\ m_Graph.nodes[n].args.op = choice[2]
                /\ m_Graph.nodes[n].kind = "FuseOnlyPleOperation" =>
                      m_Graph.nodes[n].args.shapeMultiplier
                          = <<<<1, p.m_PoolingStrideY>>, <<1, p.m_PoolingStrideX>>, 1>>
                /\ m_OperandToNode[network[k].outputs[1]] = n

\* A 3x3 stride 1 unpadded AVG pooling of a 3x3 input, lowered as the mean.
C16_Witness ==
    /\ Len(network) = 2
    /\ Lowered(2, "Pooling", "Supported")
    /\ InfoOf(network[2].inputs[1]).m_Dimensions = <<1, 3, 3, 16>>
    /\ network[2].info = PoolingInfo(3, 3, 1, 1, Padding(0, 0, 0, 0), "AVG")
    /\ m_Graph.nodes[network[2].firstNode].args.op = "MEAN_XY_8X8"

\* Visit k is a Pooling with kernel 1x1 and stride 1x1 whose verdict is not
\* EstimateOnly.
OneByOnePooling(k) ==
    /\ network[k].kind = "Pooling"
    /\ network[k].supportedLevel # "EstimateOnly"
    /\ network[k].info.m_PoolingSizeX = 1 /\ network[k].info.m_PoolingSizeY = 1
    /\ network[k].info.m_PoolingStrideX = 1 /\ network[k].info.m_PoolingStrideY = 1

\* Visit k ended the pass having created no node and bound no operand.
Aborted(k) ==
    /\ k = Len(network)
    /\ status # "ok"
    /\ NodesOf(k) = {}
    /\ \A i \in 1..Len(network[k].outputs) : network[k].outputs[i] \notin DOMAIN m_OperandToNode

\* C17 as stated: a Pooling with kernel 1x1 and stride 1x1 (any padding, type
\* and input shape) whose verdict is not EstimateOnly aborts the pass, and no
\* pooling node is created or connected.
C17_OneByOnePoolingAborts ==
    \A k \in Visits : OneByOnePooling(k) => Aborted(k)

\* The 1x1 pooling is the mean of its input: the input is 1x1, the pooling
\* is unpadded and AVG.
MeanOfOneByOne(k) ==
    /\ InfoOf(network[k].inputs[1]).m_Dimensions[2] = 1
    /\ InfoOf(network[k].inputs[1]).m_Dimensions[3] = 1
    /\ network[k].info.m_Padding = Padding(0, 0, 0, 0)
    /\ network[k].info.m_PoolingType = "AVG"

\* C17, amended: such a Pooling ends the pass with no node created and no
\* operand bound (at the failed assertion, or with assertions compiled out at
\* the null node handed to ConnectNode), unless it is the unpadded AVG
\* pooling of a 1x1 input, which is lowered as the mean to one MEAN_XY_8X8
\* node.
C17_OneByOnePoolingAbortsUnlessMean ==
    \A k \in Visits :
        OneByOnePooling(k) =>
            IF MeanOfOneByOne(k)
            THEN /\ Completed(k)
                 /\ network[k].lastNode = network[k].firstNode
                 /\ m_Graph.nodes[network[k].firstNode].kind = "FuseOnlyPleOperation"
                 /\ m_Graph.nodes[network[k].firstNode].args.op = "MEAN_XY_8X8"
                 /\ m_OperandToNode[network[k].outputs[1]] = network[k].firstNode
            ELSE /\ Aborted(k)
                 /\ status = IF asserts THEN "assert" ELSE "undefined"

\* A padded 1x1 MAX pooling of a 3x3 input, verdict Supported, has ended the
\* pass at the assertion.
C17_Witness ==
    /\ Len(network) = 2
    /\ OneByOnePooling(2)
    /\ network[2].supportedLevel = "Supported"
    /\ network[2].info.m_PoolingType = "MAX"
    /\ network[2].info.m_Padding = Padding(1, 1, 1, 1)
    /\ InfoOf(network[2].inputs[1]).m_Dimensions = <<1, 3, 3, 16>>
    /\ status = "assert"
    /\ Len(m_Graph.nodes) = 1

(***************************************************************************)
(* GetShapeContainingLinearElements on its own: every brick group shape    *)
(* and every number of elements up to the bounds.                          *)
(***************************************************************************)
MaxBrickPatches == 3
MaxElements == 2500

\* Brick groups of whole 4x4 patches, among them the (1, 8, 8, 16) of the
\* hardware.
BrickGroupShapes ==
    {<<1, 4 * ph, 4 * pw, bc>> : ph \in 1..MaxBrickPatches, pw \in 1..MaxBrickPatches,
                                 bc \in {1, 4, 16}}

PackInit ==
    /\ ConverterIdle
    /\ \E brickGroupShape \in BrickGroupShapes, numElements \in 1..MaxElements :
          call = [brickGroupShape |-> brickGroupShape, numElements |-> numElements,
                  results |-> <<>>]

Pack ==
    /\ call.results = <<>>
    /\ call' = [call EXCEPT !.results =
                   <<GetShapeContainingLinearElements(call.brickGroupShape,
                                                       call.numElements)>>]
    /\ UNCHANGED <<m_Graph, m_OperandToNode, m_EstimationMode, asserts, operands,
                   network, status>>

PackSpec == PackInit /\ [][Pack]_vars

\* C18: for a brick group (1, BH, BW, BC) of whole patches and N >= 1
\* elements, the shape returned is (1, H, W, C) with H in {4, BH}, W in
\* {4, BW}, C = BC * floor(p / ppbg) + min(BC, p mod ppbg), where
\* p = ceil(N / 16) and ppbg = (BH / 4) * (BW / 4) * BC, and it holds at
\* least N elements.
C18_LinearShapeCovers ==
    call.results # <<>> =>
        LET BH    == call.brickGroupShape[2]
            BW    == call.brickGroupShape[3]
            BC    == call.brickGroupShape[4]
            N     == call.numElements
            shape == call.results[1]
            p     == (N + 15) \div 16
            ppbg  == (BH \div 4) * (BW \div 4) * BC
            rest  == p % ppbg
        IN  /\ Len(shape) = 4
            /\ shape[1] = 1
            /\ shape[2] \in {4, BH}
            /\ shape[3] \in {4, BW}
            /\ shape[4] = BC * (p \div ppbg) + (IF BC <= rest THEN BC ELSE rest)
            /\ shape[2] * shape[3] * shape[4] >= N

\* 1025 elements in the brick group (1, 8, 8, 16): one full brick group and
\* one more patch, so 17 channels.
C18_Witness ==
    /\ call.brickGroupShape = <<1, 8, 8, 16>>
    /\ call.numElements = 1025
    /\ call.results = <<(<<1, 8, 8, 17>>)>>

(***************************************************************************)
(* FullyConnected on its own: an Input or a Constant followed by one       *)
(* FullyConnected operation whose weights have few input channels, one     *)
(* less than the multiple, the multiple, or one more.                      *)
(***************************************************************************)
MaxFullyConnectedOutputs == 2

\* Weight bytes k mod 256, so that the bytes differ and the zero point (5)
\* occurs among them.
WeightBytes(n) == [k \in 1..n |-> k % 256]

AllFullyConnectedWeights ==
    {Weights(<<1, 1, i, o>>, "DataFormat::HWIO", WeightBytes(i * o)) :
        i \in {1, 3, WeightsChannelMultiple - 1, WeightsChannelMultiple,
               WeightsChannelMultiple + 1},
        o \in 1..MaxFullyConnectedOutputs}

FullyConnectedInput ==
    Len(network) = 0 /\ (VisitInputFrom(InputInfos) \/ VisitConstant)

FullyConnectedVisit ==
    Len(network) = 1 /\ VisitFullyConnectedFrom(AllFullyConnectedWeights)

FullyConnectedNext == FullyConnectedInput \/ FullyConnectedVisit

FullyConnectedSpec == Init /\ [][FullyConnectedNext]_vars

\* C19: the MceOperation(FULLY_CONNECTED) node of a FullyConnected has the
\* weights info of the operation with the input channels rounded up to the
\* next multiple of 1024 (unchanged if a multiple already); its weights are
\* as long as that shape is big, begin with the original bytes in order and
\* go on with the zero point of the weights; bias, the default stride,
\* upscale factor 1 and padding 0/0 are passed through.
C19_FullyConnectedPadding ==
    \A k \in Visits :
        network[k].kind = "FullyConnected" /\ Completed(k) =>
            LET weights  == network[k].info.weights
                bias     == network[k].info.bias
                args     == m_Graph.nodes[network[k].lastNode].args
                channels == weights.info.m_Dimensions[3]
                padded   == IF channels % 1024 = 0 THEN channels
                            ELSE channels + (1024 - (channels % 1024))
                dims     == args.weightsInfo.m_Dimensions
            IN  /\ m_Graph.nodes[network[k].lastNode].kind = "MceOperation"
                /\ args.op = "FULLY_CONNECTED"
                /\ dims = [weights.info.m_Dimensions EXCEPT ![3] = padded]
                /\ args.weightsInfo = [weights.info EXCEPT !.m_Dimensions = dims]
                /\ Len(args.weightsData) = dims[1] * dims[2] * dims[3] * dims[4]
                /\ \A i \in 1..Len(args.weightsData) :
                      args.weightsData[i] =
                          IF i <= Len(weights.data) THEN weights.data[i]
                          ELSE weights.info.m_QuantizationInfo.m_ZeroPoint
                /\ args.biasInfo = bias.info /\ args.biasData = bias.data
                /\ args.stride = Stride(1, 1)
                /\ args.upscaleFactor = 1
                /\ args.padTop = 0 /\ args.padLeft = 0

\* Weights of 1025 input channels and 2 output channels after an Input
\* whose zero point (0) is not that of the weights (5): 4096 bytes, the
\* last of them 5.
C19_Witness ==
    /\ Len(network) = 2
    /\ Completed(2)
    /\ network[1].kind = "Input"
    /\ network[1].info.m_QuantizationInfo.m_ZeroPoint = 0
    /\ network[2].kind = "FullyConnected"
    /\ network[2].info.weights.info.m_Dimensions = <<1, 1, 1025, 2>>
    /\ Len(m_Graph.nodes[network[2].lastNode].args.weightsData) = 4096
    /\ m_Graph.nodes[network[2].lastNode].args.weightsData[4096] = 5
    /\ m_Graph.nodes[network[2].lastNode].args.weightsData[2050] = 2

\* Visit k is a Concatenation that was lowered to a Concat node.
ConcatLowered(k) ==
    /\ network[k].kind = "Concatenation"
    /\ network[k].supportedLevel # "EstimateOnly"
    /\ Completed(k)

\* Every input of Concatenation k is a multiple of the brick group shape
\* along the axis.
AllAligned(k) ==
    \A i \in 1..Len(network[k].inputs) :
        InfoOf(network[k].inputs[i]).m_Dimensions[network[k].info.concatInfo.m_Axis + 1]
            % GetBrickGroupShape[network[k].info.concatInfo.m_Axis + 1] = 0

FormatConversionsOf(k) ==
    {n \in NodesOf(k) : m_Graph.nodes[n].kind = "FormatConversion"}

\* The layout of the Concat node of Concatenation k.
ConcatFormat(k) == m_Graph.nodes[network[k].firstNode].format

\* C20 as stated: the Concat node is NHWCB if every input is aligned along
\* the axis and NHWC otherwise, and with all inputs aligned the rule inserts
\* no FormatConversion, whatever the layouts of the nodes producing the
\* inputs.
C20_AlignedConcatWithoutConversion ==
    \A k \in Visits :
        ConcatLowered(k) =>
            /\ m_Graph.nodes[network[k].firstNode].kind = "Concat"
            /\ ConcatFormat(k) = IF AllAligned(k) THEN "NHWCB" ELSE "NHWC"
            /\ AllAligned(k) => FormatConversionsOf(k) = {}

\* C20, amended: the Concat node is NHWCB if every input is aligned along
\* the axis and NHWC otherwise; the rule inserts one FormatConversion to the
\* Concat's layout for every input whose producing node has another layout,
\* so with all inputs aligned it inserts none exactly when every producing
\* node is NHWCB.
C20_ConversionPerInputOfOtherLayout ==
    \A k \in Visits :
        ConcatLowered(k) =>
            LET others == {i \in 1..Len(network[k].inputs) :
                              m_Graph.nodes[m_OperandToNode[network[k].inputs[i]]].format
                                  # ConcatFormat(k)}
            IN  /\ m_Graph.nodes[network[k].firstNode].kind = "Concat"
                /\ ConcatFormat(k) = IF AllAligned(k) THEN "NHWCB" ELSE "NHWC"
                /\ Cardinality(FormatConversionsOf(k)) = Cardinality(others)
                /\ \A n \in FormatConversionsOf(k) :
                      /\ m_Graph.nodes[n].format = ConcatFormat(k)
                      /\ \E i \in others :
                            SourcesOf(n) = <<m_OperandToNode[network[k].inputs[i]]>>

\* An Input (1,16,8,16) split along the channels into two NHWC halves, which
\* are concatenated along the height, where they are aligned: an NHWCB
\* Concat with a FormatConversion on each input.
C20_Witness ==
    /\ status = "ok"
    /\ Len(network) = 3
    /\ network[2].kind = "Split"
    /\ ConcatLowered(3)
    /\ network[3].inputs = <<2, 3>>
    /\ AllAligned(3)
    /\ ConcatFormat(3) = "NHWCB"
    /\ Cardinality(FormatConversionsOf(3)) = 2

(***************************************************************************)
(* C21: the splicing of Concatenation.                                     *)
(***************************************************************************)
\* The node at the source end of the only input edge of n.
OnlySource(n) == SourcesOf(n)[1]

\* Slot i of the Concat node of Concatenation k is reached from the node
\* bound to input operand i by: a FormatConversion of this visit iff that
\* node's layout is not the Concat's, then a Requantize of this visit iff
\* the input tensor's quantization is not the output tensor's.
SlotPath(k, i) ==
    LET n == network[k].firstNode
        input == network[k].inputs[i]
        producer == m_OperandToNode[input]
        outInfo == InfoOf(network[k].outputs[1])
        needsConversion == m_Graph.nodes[producer].format # ConcatFormat(k)
        needsRequantize == InfoOf(input).m_QuantizationInfo # outInfo.m_QuantizationInfo
        feeder == SourcesOf(n)[i]
        requantized == IF needsRequantize THEN OnlySource(feeder) ELSE feeder
        converted == IF needsConversion THEN OnlySource(requantized) ELSE requantized
    IN  /\ needsRequantize =>
              /\ feeder \in NodesOf(k)
              /\ IsNode(feeder, "Requantize", InfoOf(input).m_Dimensions, ConcatFormat(k))
              /\ m_Graph.nodes[feeder].quant = outInfo.m_QuantizationInfo
              /\ Len(m_Graph.nodes[feeder].m_Inputs) = 1
        /\ needsConversion =>
              /\ requantized \in NodesOf(k)
              /\ IsNode(requantized, "FormatConversion", InfoOf(input).m_Dimensions,
                        ConcatFormat(k))
              /\ m_Graph.nodes[requantized].quant = InfoOf(input).m_QuantizationInfo
              /\ Len(m_Graph.nodes[requantized].m_Inputs) = 1
        /\ converted = producer
        /\ producer \notin NodesOf(k)

\* The nodes of Concatenation k other than the Concat node: each feeds
\* one edge, into the Concat or into a Requantize of the same visit.
SplicedNodesFeedOnce(k) ==
    \A s \in NodesOf(k) \ {network[k].firstNode} :
        Cardinality({e \in Edges : m_Graph.edges[e].source = s}) = 1

\* C21: after a Concatenation was lowered to a Concat node, the node has
\* exactly one input edge per input operand, in operand order; the path into
\* slot i is producer i, then a FormatConversion iff the producer's layout is
\* not the chosen layout, then a Requantize iff input i's quantization is not
\* the output quantization, then the slot; and no splice moved the producer of
\* another slot.
C21_ConcatSplicing ==
    \A k \in Visits :
        ConcatLowered(k) =>
            /\ m_Graph.nodes[network[k].firstNode].kind = "Concat"
            /\ Len(m_Graph.nodes[network[k].firstNode].m_Inputs) = Len(network[k].inputs)
            /\ \A i \in 1..Len(network[k].inputs) : SlotPath(k, i)
            /\ SplicedNodesFeedOnce(k)
            /\ Cardinality(NodesOf(k)) = 1
                 + Cardinality({i \in 1..Len(network[k].inputs) :
                       m_Graph.nodes[m_OperandToNode[network[k].inputs[i]]].format
                           # ConcatFormat(k)})
                 + Cardinality({i \in 1..Len(network[k].inputs) :
                       InfoOf(network[k].inputs[i]).m_QuantizationInfo
                           # InfoOf(network[k].outputs[1]).m_QuantizationInfo})

\* A Concat of two different producers where slot 1 is fed directly and
\* slot 2 through a FormatConversion and a Requantize.
C21_Witness ==
    \E k \in Visits :
        /\ ConcatLowered(k)
        /\ Len(network[k].inputs) = 2
        /\ LET n == network[k].firstNode
               first == SourcesOf(n)[1]
               second == SourcesOf(n)[2]
           IN  /\ first = m_OperandToNode[network[k].inputs[1]]
               /\ m_Graph.nodes[second].kind = "Requantize"
               /\ m_Graph.nodes[OnlySource(second)].kind = "FormatConversion"
               /\ OnlySource(OnlySource(second)) = m_OperandToNode[network[k].inputs[2]]
               /\ first # OnlySource(OnlySource(second))

(***************************************************************************)
(* C22: the Supported path of Split.  Networks of an Input of 24 channels  *)
(* followed by Splits, so that outputs of 8 and of 16 channels occur side  *)
(* by side.                                                                *)
(***************************************************************************)
SplitChannels == 24

SplitSizeParts == {8, 16}

SplitInputInfos ==
    {TensorInfo(<<1, 16, 8, SplitChannels>>, "UINT8_QUANTIZED", "DataFormat::NHWCB",
                QuantizationInfo(0, 256)),
     TensorInfo(<<1, 8, 8, SplitChannels>>, "UINT8_QUANTIZED", "DataFormat::NHWC",
                QuantizationInfo(3, 128))}

SplitInput == Len(network) = 0 /\ VisitInputFrom(SplitInputInfos)

SplitVisit == Len(network) > 0 /\ VisitSplitFrom(SplitSizeParts)

SplitNext == SplitInput \/ SplitVisit

SplitSpec == Init /\ [][SplitNext]_vars

SplitLowered(k) ==
    /\ network[k].kind = "Split"
    /\ network[k].supportedLevel # "EstimateOnly"
    /\ Completed(k)

\* Every output of Split k is a multiple of the brick group shape along the
\* axis.
AllOutputsAligned(k) ==
    \A i \in 1..Len(network[k].outputs) :
        InfoOf(network[k].outputs[i]).m_Dimensions[network[k].info.m_Axis + 1]
            % GetBrickGroupShape[network[k].info.m_Axis + 1] = 0

\* C22: a Split lowered to ExtractSubtensor nodes chooses NHWCB iff every
\* output is a multiple of the brick group shape along the axis, else NHWC;
\* it creates one FormatConversion to that layout iff the node producing the
\* input has another layout, and no other node but one ExtractSubtensor an
\* output; each ExtractSubtensor has exactly one input edge, all from the
\* same node (the FormatConversion if there is one, else the producer), the
\* chosen layout and the input's quantization; and output i is bound to
\* ExtractSubtensor node i.
C22_SplitLowering ==
    \A k \in Visits :
        SplitLowered(k) =>
            LET input == network[k].inputs[1]
                outputs == network[k].outputs
                producer == m_OperandToNode[input]
                format == IF AllOutputsAligned(k) THEN "NHWCB" ELSE "NHWC"
                converts == m_Graph.nodes[producer].format # format
                conversion == network[k].firstNode
                feeder == IF converts THEN conversion ELSE producer
                extract(i) == network[k].lastNode - Len(outputs) + i
            IN  /\ Cardinality(NodesOf(k)) = Len(outputs) + IF converts THEN 1 ELSE 0
                /\ converts =>
                      /\ IsNode(conversion, "FormatConversion", InfoOf(input).m_Dimensions,
                                format)
                      /\ m_Graph.nodes[conversion].quant = InfoOf(input).m_QuantizationInfo
                      /\ SourcesOf(conversion) = <<producer>>
                /\ \A i \in 1..Len(outputs) :
                      /\ m_Graph.nodes[extract(i)].kind = "ExtractSubtensor"
                      /\ m_Graph.nodes[extract(i)].format = format
                      /\ m_Graph.nodes[extract(i)].quant = InfoOf(input).m_QuantizationInfo
                      /\ SourcesOf(extract(i)) = <<feeder>>
                      /\ m_OperandToNode[outputs[i]] = extract(i)

\* A Split into an aligned and an unaligned output (16 and 8 channels) of an
\* NHWCB producer: one FormatConversion to NHWC feeds both ExtractSubtensors.
C22_Witness ==
    \E k \in Visits :
        /\ SplitLowered(k)
        /\ Len(network[k].outputs) = 2
        /\ ~AllOutputsAligned(k)
        /\ \E i \in 1..2 :
              InfoOf(network[k].outputs[i]).m_Dimensions[network[k].info.m_Axis + 1]
                  % GetBrickGroupShape[network[k].info.m_Axis + 1] = 0
        /\ m_Graph.nodes[network[k].firstNode].kind = "FormatConversion"
        /\ SourcesOf(network[k].lastNode) = <<network[k].firstNode>>
        /\ SourcesOf(network[k].lastNode - 1) = <<network[k].firstNode>>

(***************************************************************************)
(* C23, C24: Convolution and DepthwiseConvolution.  Networks of an Input   *)
(* of even or odd height and width followed by one convolution of any      *)
(* stride up to MaxStride.                                                 *)
(***************************************************************************)
MaxStride == 3

MaxConvolutionSize == 8

ConvolutionInputInfos ==
    {TensorInfo(<<1, h, w, c>>, "UINT8_QUANTIZED", "DataFormat::NHWCB",
                QuantizationInfo(3, 128)) :
        h \in {MaxConvolutionSize - 1, MaxConvolutionSize},
        w \in {MaxConvolutionSize - 1, MaxConvolutionSize}, c \in {3, 16}}

AllConvolutionInfos ==
    {ConvolutionInfo(Padding(top, top, left, left), Stride(x, y)) :
        top \in 0..1, left \in 0..1, x \in 1..MaxStride, y \in 1..MaxStride}

AllConvolutionWeights ==
    {Weights(<<1, 1, 1, 1>>, "DataFormat::HWIO", Bytes(1)),
     Weights(<<2, 1, 1, 2>>, "DataFormat::HWIO", Bytes(4))}

AllDepthwiseCases ==
    {[weights |-> Weights(dims, "DataFormat::HWIM", Bytes(dims[3] * dims[4])),
      convInfo |-> ci] :
        dims \in {<<1, 1, 1, 1>>, <<1, 1, 1, 2>>, <<1, 1, 2, 2>>}, ci \in AllConvolutionInfos}

ConvolutionInput == Len(network) = 0 /\ VisitInputFrom(ConvolutionInputInfos)

ConvolutionVisit ==
    Len(network) = 1 /\ VisitConvolutionFrom(AllConvolutionWeights, AllConvolutionInfos)

DepthwiseConvolutionVisit ==
    Len(network) = 1 /\ VisitDepthwiseConvolutionFrom(AllDepthwiseCases)

ConvolutionNext == ConvolutionInput \/ ConvolutionVisit \/ DepthwiseConvolutionVisit

ConvolutionSpec == Init /\ [][ConvolutionNext]_vars

\* Visit k is a Convolution of the given stride that was lowered.
ConvolutionLowered(k, x, y) ==
    /\ network[k].kind = "Convolution"
    /\ network[k].supportedLevel # "EstimateOnly"
    /\ Completed(k)
    /\ network[k].info.convInfo.m_Stride = Stride(x, y)

\* Node n is the MceOperation(CONVOLUTION) of Convolution k: the original
\* input shape, stride, weights and bias, upscale 1, the padding of the
\* convolution info.
IsConvolutionNode(k, n) ==
    LET info == network[k].info
        outInfo == InfoOf(network[k].outputs[1])
        args == m_Graph.nodes[n].args
    IN  /\ IsNode(n, "MceOperation", outInfo.m_Dimensions, "NHWCB")
        /\ m_Graph.nodes[n].quant = outInfo.m_QuantizationInfo
        /\ args.op = "CONVOLUTION"
        /\ args.inputShape = InfoOf(network[k].inputs[1]).m_Dimensions
        /\ args.stride = info.convInfo.m_Stride
        /\ args.upscaleFactor = 1
        /\ args.padTop = info.convInfo.m_Padding.m_Top
        /\ args.padLeft = info.convInfo.m_Padding.m_Left
        /\ args.weightsInfo = info.weights.info
        /\ args.weightsData = info.weights.data
        /\ args.biasInfo = Bias(1).info
        /\ args.biasData = Bias(1).data

\* Node n is the interleave node of Convolution k.
IsInterleaveNode(k, n) ==
    LET inputInfo == InfoOf(network[k].inputs[1])
        dims == inputInfo.m_Dimensions
    IN  /\ IsNode(n, "FuseOnlyPleOperation",
                  <<dims[1], (dims[2] + 1) \div 2, (dims[3] + 1) \div 2,
                    GetNumSubmapChannels(dims[4], 2, 2)>>, "NHWCB")
        /\ m_Graph.nodes[n].quant = inputInfo.m_QuantizationInfo
        /\ m_Graph.nodes[n].args.op = "INTERLEAVE_2X2_2_2"
        /\ m_Graph.nodes[n].args.shapeMultiplier = <<<<1, 2>>, <<1, 2>>, 4>>

\* C23: a lowered Convolution of stride (1,1) is the one-node chain
\* [MceOperation(CONVOLUTION)], one of stride (2,2) the two-node chain
\* [FuseOnlyPle(INTERLEAVE_2X2_2_2), MceOperation(CONVOLUTION)]; the
\* interleave node has the shape (N, ceil(H/2), ceil(W/2),
\* submap_channels(C, 2, 2)) and the shape multiplier ((1,2),(1,2),4); the
\* MceOperation records the original input shape and stride, upscale 1, the
\* top and left padding of the convolution info and the weights and bias
\* unchanged; the chain is fed by the producer of the input and the output is
\* bound to the MceOperation.
C23_ConvolutionChain ==
    \A k \in Visits :
        LET first == network[k].firstNode
            last == network[k].lastNode
            producer == m_OperandToNode[network[k].inputs[1]]
        IN  /\ ConvolutionLowered(k, 1, 1) =>
                  /\ last = first
                  /\ IsConvolutionNode(k, last)
                  /\ SourcesOf(last) = <<producer>>
                  /\ m_OperandToNode[network[k].outputs[1]] = last
            /\ ConvolutionLowered(k, 2, 2) =>
                  /\ last = first + 1
                  /\ IsInterleaveNode(k, first)
                  /\ IsConvolutionNode(k, last)
                  /\ SourcesOf(first) = <<producer>>
                  /\ SourcesOf(last) = <<first>>
                  /\ m_OperandToNode[network[k].outputs[1]] = last

\* A Convolution of stride (2,2) and padding (1, 0) of an input of odd
\* height and width and 3 channels, lowered to two nodes.
C23_Witness ==
    \E k \in Visits :
        /\ ConvolutionLowered(k, 2, 2)
        /\ network[k].info.convInfo.m_Padding.m_Top = 1
        /\ network[k].info.convInfo.m_Padding.m_Left = 0
        /\ InfoOf(network[k].inputs[1]).m_Dimensions[2] % 2 = 1
        /\ InfoOf(network[k].inputs[1]).m_Dimensions[3] % 2 = 1
        /\ InfoOf(network[k].inputs[1]).m_Dimensions[4] = 3
        /\ m_Graph.nodes[network[k].firstNode].kind = "FuseOnlyPleOperation"
        /\ m_Graph.nodes[network[k].lastNode].kind = "MceOperation"
        /\ m_OperandToNode[network[k].outputs[1]] = network[k].lastNode

\* C24: a Convolution or DepthwiseConvolution whose verdict is not
\* EstimateOnly and whose stride has a component above 1 without being (2,2)
\* fails the assertion of its rule before any node is created: the pass ends
\* there and the graph holds no interleave or MceOperation node of that
\* operation.
C24_OddStrideAsserts ==
    \A k \in Visits :
        LET stride == network[k].info.convInfo.m_Stride
        IN  (/\ network[k].kind \in {"Convolution", "DepthwiseConvolution"}
             /\ network[k].supportedLevel # "EstimateOnly"
             /\ (stride.m_X > 1 \/ stride.m_Y > 1)
             /\ stride # Stride(2, 2))
            => /\ k = Len(network)
               /\ status = "assert"
               /\ ~\E n \in Nodes : m_Graph.nodes[n].ids = {network[k].id}

(***************************************************************************)
(* C25, C26: the transpose convolution builder.  Networks of an Input      *)
(* followed by one TransposeConvolution or DepthToSpace, the kernels on    *)
(* both sides of the large-kernel limit.                                   *)
(***************************************************************************)
MaxTransposePadding == 2

MaxTransposeStride == 2

TransposeInputInfos ==
    {TensorInfo(<<1, 3, 2, 4>>, "UINT8_QUANTIZED", "DataFormat::NHWCB",
                QuantizationInfo(3, 128)),
     TensorInfo(<<1, 2, 2, 8>>, "UINT8_QUANTIZED", "DataFormat::NHWC",
                QuantizationInfo(0, 256))}

KernelSizes == {1, 3, MaxUpscaleKernel, MaxUpscaleKernel + 1}

AllTransposeWeights ==
    {Weights(<<kh, kw, 1, 1>>, "DataFormat::HWIO", Bytes(kh * kw)) :
        kh \in KernelSizes, kw \in KernelSizes}

AllTransposeInfos ==
    {ConvolutionInfo(Padding(top, top, left, left), Stride(x, y)) :
        top \in 0..MaxTransposePadding, left \in 0..MaxTransposePadding,
        x \in 1..MaxTransposeStride, y \in 1..MaxTransposeStride}

\* The internal padding of the convolution underneath would be negative.
PaddingExceedsKernel(weightsInfo, padding) ==
    \/ padding.m_Top > weightsInfo.m_Dimensions[1] - 1
    \/ padding.m_Left > weightsInfo.m_Dimensions[2] - 1

\* IsTransposeConvolutionSupported: a padding that makes the internal
\* padding negative is never Supported.
IsTransposeConvolutionSupported(weightsInfo, convInfo) ==
    IF PaddingExceedsKernel(weightsInfo, convInfo.m_Padding)
    THEN SupportedLevels \ {"Supported"}
    ELSE SupportedLevels

AllTransposeCases == AllTransposeWeights \X AllTransposeInfos \X SupportedLevels

SupportedTransposeCases ==
    {case \in AllTransposeCases :
        case[3] \in IsTransposeConvolutionSupported(case[1].info, case[2])}

TransposeInput == Len(network) = 0 /\ VisitInputFrom(TransposeInputInfos)

TransposeVisit == Len(network) = 1 /\ VisitTransposeConvolutionFrom(SupportedTransposeCases)

DepthToSpaceVisit == Len(network) = 1 /\ VisitDepthToSpace

TransposeNext == TransposeInput \/ TransposeVisit \/ DepthToSpaceVisit

TransposeSpec == Init /\ [][TransposeNext]_vars

\* The kernel and the user padding that the builder was called with for
\* visit k.
BuilderWeightsShape(k) ==
    IF network[k].kind = "DepthToSpace"
    THEN <<2, 2, InfoOf(network[k].inputs[1]).m_Dimensions[4],
           InfoOf(network[k].outputs[1]).m_Dimensions[4]>>
    ELSE network[k].info.weights.info.m_Dimensions

BuilderPadding(k) ==
    IF network[k].kind = "DepthToSpace" THEN Padding(0, 0, 0, 0)
    ELSE network[k].info.convInfo.m_Padding

\* Node n is an MceOperation made by the builder for visit k.
BuiltFor(k, n) ==
    /\ network[k].kind \in {"TransposeConvolution", "DepthToSpace"}
    /\ n \in NodesOf(k)
    /\ m_Graph.nodes[n].kind = "MceOperation"

\* C25: every convolution node that the builder emits for a
\* TransposeConvolution or a DepthToSpace has the top padding KH - 1 - pad.top
\* and the left padding KW - 1 - pad.left, both not negative: no emitted
\* node has a 32-bit unsigned padding that wrapped round because the user
\* padding exceeds the kernel size minus one.
C25_PaddingNeverWraps ==
    \A k \in Visits : \A n \in Nodes :
        (BuiltFor(k, n) /\ m_Graph.nodes[n].args.op = "CONVOLUTION") =>
            /\ m_Graph.nodes[n].args.padTop = BuilderWeightsShape(k)[1] - 1 - BuilderPadding(k).m_Top
            /\ m_Graph.nodes[n].args.padLeft = BuilderWeightsShape(k)[2] - 1 - BuilderPadding(k).m_Left
            /\ m_Graph.nodes[n].args.padTop >= 0
            /\ m_Graph.nodes[n].args.padLeft >= 0

\* Visit k called the builder and ran to its end.
BuilderRan(k) ==
    /\ \/ network[k].kind = "DepthToSpace"
       \/ network[k].kind = "TransposeConvolution" /\ network[k].supportedLevel # "EstimateOnly"
    /\ Completed(k)

\* The stride the builder was called with for visit k.
BuilderStride(k) ==
    IF network[k].kind = "DepthToSpace" THEN Stride(2, 2)
    ELSE network[k].info.convInfo.m_Stride

LargeKernel(k) == BuilderWeightsShape(k)[1] > 7 \/ BuilderWeightsShape(k)[2] > 7

\* Node n is the identity depthwise convolution that upscales the input of
\* visit k.
IsIdentityNode(k, n) ==
    LET inputInfo == InfoOf(network[k].inputs[1])
        dims == inputInfo.m_Dimensions
        upscale == BuilderStride(k).m_X
        args == m_Graph.nodes[n].args
    IN  /\ IsNode(n, "MceOperation",
                  <<dims[1], dims[2] * upscale, dims[3] * upscale, dims[4]>>, "NHWCB")
        /\ m_Graph.nodes[n].quant = inputInfo.m_QuantizationInfo
        /\ args.op = "DEPTHWISE_CONVOLUTION"
        /\ args.inputShape = dims
        /\ args.upscaleFactor = upscale
        /\ args.padTop = 0 /\ args.padLeft = 0
        /\ args.weightsInfo.m_Dimensions = <<1, 1, dims[4], 1>>
        /\ args.weightsInfo.m_QuantizationInfo = QuantizationInfo(0, ScaleHalf)
        /\ Len(args.weightsData) = dims[4]
        /\ \A i \in 1..dims[4] : args.weightsData[i] = 2
        /\ \A i \in 1..Len(args.biasData) : args.biasData[i] = 0

DepthToSpaceLowered(k) == network[k].kind = "DepthToSpace" /\ Completed(k)

\* The weight at (v, u, i, o) that visit k handed to the builder: the
\* convolution node holds the weights turned by 180 degrees in the XY plane.
SynthesisedWeight(k, v, u, i, o) ==
    LET args == m_Graph.nodes[network[k].lastNode].args
        shape == args.weightsInfo.m_Dimensions
    IN  args.weightsData[((((1 - v) * 2 + (1 - u)) * shape[3] + i) * shape[4] + o) + 1]

\* The input channel that (o, v, u) selects.
SelectedChannel(in, o, v, u) == o + (v * 2 + u) * (in \div 4)

\* C27: for a DepthToSpace of block size 2 with in input and out = in / 4
\* output channels the weights have the shape (2, 2, in, out); for every
\* output channel o and kernel position (v, u) the only weight along the
\* input channels that is not zero is the one at o + (v * 2 + u) * (in / 4),
\* of value 2; that index is below in; (o, v, u) -> index is one-to-one and
\* onto 0..in-1, so in weights are not zero in all; the bias is zero with the
\* scale 0.5 * input scale; and the builder is called with stride 2 and
\* padding 0.
C27_DepthToSpaceWeights ==
    \A k \in Visits :
        DepthToSpaceLowered(k) =>
            LET inputInfo == InfoOf(network[k].inputs[1])
                in == inputInfo.m_Dimensions[4]
                out == InfoOf(network[k].outputs[1]).m_Dimensions[4]
                args == m_Graph.nodes[network[k].lastNode].args
                triples == (0..(out - 1)) \X (0..1) \X (0..1)
            IN  /\ out * 4 = in
                /\ network[k].lastNode = network[k].firstNode
                /\ args.weightsInfo.m_Dimensions = <<2, 2, in, out>>
                /\ args.weightsInfo.m_QuantizationInfo = QuantizationInfo(0, 128)
                /\ Len(args.weightsData) = 4 * in * out
                /\ \A t \in triples :
                      /\ SelectedChannel(in, t[1], t[2], t[3]) \in 0..(in - 1)
                      /\ \A i \in 0..(in - 1) :
                            SynthesisedWeight(k, t[2], t[3], i, t[1]) =
                                IF i = SelectedChannel(in, t[1], t[2], t[3]) THEN 2 ELSE 0
                /\ {SelectedChannel(in, t[1], t[2], t[3]) : t \in triples} = 0..(in - 1)
                /\ Cardinality(triples) = in
                /\ Cardinality({j \in 1..Len(args.weightsData) : args.weightsData[j] # 0}) = in
                /\ args.biasInfo.m_Dimensions = <<1, 1, 1, out>>
                /\ args.biasData = [j \in 1..out |-> 0]
                /\ args.biasInfo.m_QuantizationInfo.m_ZeroPoint = 0
                /\ 256 * args.biasInfo.m_QuantizationInfo.m_Scale
                       = 128 * inputInfo.m_QuantizationInfo.m_Scale
                /\ args.upscaleFactor = 2
                /\ args.padTop = 1 /\ args.padLeft = 1

\* A DepthToSpace of 8 input channels: output channel 1 at kernel position
\* (1, 0) selects input channel 1 + 2 * 2 = 5.
C27_Witness ==
    \E k \in Visits :
        /\ DepthToSpaceLowered(k)
        /\ InfoOf(network[k].inputs[1]).m_Dimensions[4] = 8
        /\ SynthesisedWeight(k, 1, 0, 5, 1) = 2
        /\ SynthesisedWeight(k, 1, 0, 4, 1) = 0

(***************************************************************************)
(* C28: the bindings of m_OperandToNode are written once.                  *)
(***************************************************************************)
\* The operation visited by the step.
Visited == network'[Len(network')]

\* C28: a visit leaves every binding of m_OperandToNode as it was; the
\* bindings it adds are of outputs of the visited operation, to nodes it
\* created; and every edge it adds out of an older node leaves the node that
\* an input operand of the operation is bound to.  So a FormatConversion or
\* Requantize put in for one consumer (by Concatenation, Split, Reshape,
\* FullyConnected or Output) never takes the place of the producer in the
\* map, and every other consumer of the operand is connected to the
\* producer's node itself.
C28_BindingsWrittenOnce ==
    [][LET oldNodes == 1..Len(m_Graph.nodes)
           oldEdges == 1..Len(m_Graph.edges)
           newEdges == (1..Len(m_Graph'.edges)) \ oldEdges
       IN  /\ \A o \in DOMAIN m_OperandToNode :
                 /\ o \in DOMAIN m_OperandToNode'
                 /\ m_OperandToNode'[o] = m_OperandToNode[o]
           /\ \A o \in (DOMAIN m_OperandToNode') \ (DOMAIN m_OperandToNode) :
                 /\ o \in Range(Visited.outputs)
                 /\ m_OperandToNode'[o] \in (1..Len(m_Graph'.nodes)) \ oldNodes
           /\ \A e \in oldEdges : m_Graph'.edges[e].source = m_Graph.edges[e].source
           /\ \A e \in newEdges :
                 m_Graph'.edges[e].source \in oldNodes =>
                     \E i \in 1..Len(Visited.inputs) :
                         /\ Visited.inputs[i] \in DOMAIN m_OperandToNode
                         /\ m_Graph'.edges[e].source = m_OperandToNode[Visited.inputs[i]]]_vars

\* An operand produced by an NHWCB node and consumed first by a Split that
\* puts a FormatConversion to NHWC after it and then by a Relu: the operand
\* is still bound to the producer's node, which feeds the FormatConversion
\* and the node of the Relu.
C28_Witness ==
    /\ status = "ok"
    /\ Len(network) = 3
    /\ network[2].kind = "Split"
    /\ network[3].kind = "Relu"
    /\ network[2].inputs = <<1>>
    /\ network[3].inputs = <<1>>
    /\ m_Graph.nodes[network[2].firstNode].kind = "FormatConversion"
    /\ m_OperandToNode[1] = network[1].lastNode
    /\ SourcesOf(network[2].firstNode) = <<network[1].lastNode>>
    /\ SourcesOf(network[3].firstNode) = <<network[1].lastNode>>

\* Some input of the visited Concatenation has more than one consumer.
VisitedSharesInput ==
    \E i \in 1..Len(Visited.inputs) : Visited.info.consumersSize[i] > 1

\* C29: a Concatenation that raises the shared-input NotSupportedException
\* leaves the graph and m_OperandToNode exactly as they were before the
\* visit; the test comes before any node is created and before the
\* EstimateOnly branch, so outside estimation mode a Concatenation with a
\* shared input is rejected also when its verdict is EstimateOnly.
C29_SharedInputLeavesNoTrace ==
    [][Visited.kind = "Concatenation" =>
          /\ status' = "NotSupportedException" =>
                /\ m_Graph' = m_Graph
                /\ m_OperandToNode' = m_OperandToNode
          /\ (VisitedSharesInput /\ ~m_EstimationMode) =>
                /\ status' = "NotSupportedException"
                /\ m_Graph' = m_Graph
                /\ m_OperandToNode' = m_OperandToNode]_vars

\* Outside estimation mode a Concatenation with verdict EstimateOnly whose
\* input is also consumed by an earlier Relu was rejected, and the graph
\* holds no node of it.
C29_Witness ==
    /\ ~m_EstimationMode
    /\ status = "NotSupportedException"
    /\ Len(network) = 3
    /\ network[2].kind = "Relu"
    /\ network[3].kind = "Concatenation"
    /\ network[3].supportedLevel = "EstimateOnly"
    /\ network[3].inputs = <<1>>
    /\ network[2].inputs = <<1>>
    /\ NodesOf(3) = {}
    /\ 3 \notin DOMAIN m_OperandToNode
    /\ Len(m_Graph.nodes) = network[2].lastNode

\* The number of elements of a shape.
ElementCount(shape) == shape[1] * shape[2] * shape[3] * shape[4]

\* C30: for every lowered FullyConnected the Reinterpret node's shape
\* (1, H, W, C) holds at least as many elements as the input tensor of the
\* FullyConnected, the element count handed to the packer being that of the
\* whole input and not its channel dimension alone; and the chain of the rule
\* is a FormatConversion to NHWC iff the producer's layout is not NHWC, a
\* Reinterpret in NHWCB and an MceOperation(FULLY_CONNECTED).
C30_ReinterpretHoldsInput ==
    \A k \in Visits :
        (network[k].kind = "FullyConnected" /\ Completed(k)) =>
            LET input == network[k].inputs[1]
                producer == m_OperandToNode[input]
                converts == m_Graph.nodes[producer].format # "NHWC"
                last == network[k].lastNode
                reinterpret == last - 1
            IN  /\ Cardinality(NodesOf(k)) = IF converts THEN 3 ELSE 2
                /\ converts =>
                      IsNode(network[k].firstNode, "FormatConversion",
                             InfoOf(input).m_Dimensions, "NHWC")
                /\ m_Graph.nodes[reinterpret].kind = "Reinterpret"
                /\ m_Graph.nodes[reinterpret].format = "NHWCB"
                /\ m_Graph.nodes[last].kind = "MceOperation"
                /\ m_Graph.nodes[last].args.op = "FULLY_CONNECTED"
                /\ m_Graph.nodes[reinterpret].shape[1] = 1
                /\ ElementCount(m_Graph.nodes[reinterpret].shape)
                       >= ElementCount(InfoOf(input).m_Dimensions)

====
